---- MODULE Spec2Model ----
(***************************************************************************)
(* Model of the two analysis notebooks of DatabricksClusterOptimization:   *)
(* Cluster_Optimization_Analysis.py and Resource_Utilization_Analysis.py.  *)
(* Every notebook cell that issues a query is one action; the query text   *)
(* is translated clause by clause (CTEs become operators, joins become set *)
(* comprehensions, CASE becomes IF chains in the order of the WHENs).      *)
(*                                                                         *)
(* Encodings.  A SQL string is a tuple of one-character strings, so that   *)
(* REGEXP_EXTRACT, LIKE and CAST are computed on the characters.  A        *)
(* nullable value is <<>> (NULL) or <<v>>.  Dates and timestamps are day   *)
(* numbers since 1970-01-01.  DBU quantities are in 1/1000 DBU, list       *)
(* prices in whole USD per DBU, so an unrounded cost is in 1/1000 USD;     *)
(* ROUND(x, 2) yields hundredths.                                          *)
(***************************************************************************)
EXTENDS Integers, Sequences, FiniteSets, TLC

VARIABLES
    pc,                   \* the next notebook cell (or try-block) to run
    today,                \* current_date() / date.today()
    lookback_days,        \* widget lookback_days
    workspace_filter,     \* widget workspace_filter
    driver_cpu_threshold, \* widget driver_cpu_threshold
    driver_memory_gb_threshold,
    vm_threshold,         \* widgets vm_threshold_D .. vm_threshold_default
    clusters,             \* system.compute.clusters
    node_types,           \* system.compute.node_types
    usage,                \* system.billing.usage
    list_prices,          \* system.billing.list_prices
    node_timeline,        \* system.compute.node_timeline
    failing,              \* the queries whose spark.sql(..) raises
    output_catalog,       \* widget output_catalog
    output_schema,        \* widget output_schema
    result,               \* per query cell: NULL, or Some(rows displayed)
    summary_data,         \* executive summary rows appended so far
    output_tables,        \* tables written by the run, by qualified name
    workspace_options,    \* choices of the workspace_filter dropdown
    latest_lts_version,   \* widget latest_lts_version
    dbr_lts_support_view, \* temp view dbr_lts_support: NULL until registered
    reference_table,      \* rows printed by the reference-table loop
    summary_df,           \* the displayed executive summary: NULL, or Some(rows)
    printed,              \* diagnostics printed by the executive summary cell
    configuration_summary, \* the configuration summaries printed
    first_run             \* results of the previous run of the notebook

inputs == <<today, lookback_days, workspace_filter, driver_cpu_threshold,
            driver_memory_gb_threshold, vm_threshold, clusters, node_types,
            usage, list_prices, node_timeline, failing, output_catalog,
            output_schema, latest_lts_version>>

(* The state of the notebook session besides the query results. *)
session == <<dbr_lts_support_view, reference_table, summary_df, printed,
             configuration_summary, first_run>>

vars == <<pc, inputs, result, summary_data, output_tables, workspace_options, session>>

----------------------------------------------------------------------------
(* Nullable values *)

Null == <<>>
Some(v) == <<v>>
IsNull(x) == x = <<>>
Val(x) == x[1]
Coalesce(x, d) == IF IsNull(x) THEN d ELSE Val(x)

(* A cell's result is NULL until the cell has run, then Some(rows).         *)
NotRun == Null
RowsOf(res) == IF IsNull(res) THEN <<>> ELSE Val(res)

(* The cells of Cluster_Optimization_Analysis that run queries, in notebook *)
(* order; the first creates the widgets.                                    *)
ClusterOptimizationCells ==
    <<"widgets", "dbr_reference", "outdated_dbr", "dbr_distribution", "old_vm", "vm_distribution",
      "oversized_driver", "driver_sizing_summary", "executive_summary",
      "photon_adoption", "high_cpu_photon", "cpu_summary", "photon_candidates",
      "photon_summary">>

(* The cells of Resource_Utilization_Analysis that run queries, in notebook *)
(* order.                                                                   *)
ResourceUtilizationCells ==
    <<"ru_widgets", "ru_photon_adoption", "ru_high_cpu_photon", "ru_cpu_summary",
      "high_io_wait", "high_memory", "resource_summary", "ru_photon_candidates",
      "ru_photon_summary">>

(* One run of each notebook, Cluster_Optimization_Analysis first; the two   *)
(* share no state, so their order does not matter.                          *)
RunOrder == ClusterOptimizationCells \o ResourceUtilizationCells

CellIndex(cell) == CHOOSE i \in 1..Len(RunOrder) : RunOrder[i] = cell

(* The cell that runs after cell has completed. *)
NextCell(cell) ==
    IF CellIndex(cell) = Len(RunOrder) THEN "done" ELSE RunOrder[CellIndex(cell) + 1]

(* An exception that leaves cell ends the run of its notebook: none of the  *)
(* notebook's later cells runs.                                             *)
AfterAbort(cell) ==
    IF CellIndex(cell) <= Len(ClusterOptimizationCells)
    THEN ResourceUtilizationCells[1]
    ELSE "done"

(* The cells whose result is a displayed query result. *)
Cells ==
    {RunOrder[i] : i \in 1..Len(RunOrder)}
        \ {"widgets", "dbr_reference", "ru_widgets", "executive_summary"}

outdated_dbr_result == result.outdated_dbr
dbr_distribution_result == result.dbr_distribution
old_vm_result == result.old_vm
vm_distribution_result == result.vm_distribution
oversized_driver_result == result.oversized_driver
driver_sizing_summary_result == result.driver_sizing_summary
resource_summary_result == result.resource_summary
photon_adoption_result == result.photon_adoption
high_cpu_photon_result == result.high_cpu_photon
cpu_summary_result == result.cpu_summary
photon_candidates_result == result.photon_candidates
photon_summary_result == result.photon_summary
ru_photon_adoption_result == result.ru_photon_adoption
ru_high_cpu_photon_result == result.ru_high_cpu_photon
ru_cpu_summary_result == result.ru_cpu_summary
high_io_wait_result == result.high_io_wait
high_memory_result == result.high_memory
ru_photon_candidates_result == result.ru_photon_candidates
ru_photon_summary_result == result.ru_photon_summary

----------------------------------------------------------------------------
(* Strings as character tuples *)

Digits == <<"0", "1", "2", "3", "4", "5", "6", "7", "8", "9">>
IsDigit(ch) == \E i \in 1..10 : Digits[i] = ch
DigitVal(ch) == (CHOOSE i \in 1..10 : Digits[i] = ch) - 1
UpperCase == <<"A", "B", "C", "D", "E", "F", "G", "H", "I", "J", "K", "L", "M",
               "N", "O", "P", "Q", "R", "S", "T", "U", "V", "W", "X", "Y", "Z">>
IsUpper(ch) == \E i \in 1..26 : UpperCase[i] = ch
UpperRank(ch) == CHOOSE i \in 1..26 : UpperCase[i] = ch

(* a < b for strings of upper-case letters (binary collation). *)
RECURSIVE UpperStringLess(_, _)
UpperStringLess(a, b) ==
    IF b = <<>> THEN FALSE
    ELSE IF a = <<>> THEN TRUE
    ELSE IF a[1] # b[1] THEN UpperRank(a[1]) < UpperRank(b[1])
    ELSE UpperStringLess(Tail(a), Tail(b))

(* CAST(n AS STRING) for n >= 0. *)
RECURSIVE IntToString(_)
IntToString(n) ==
    IF n < 10 THEN <<Digits[n + 1]>>
    ELSE IntToString(n \div 10) \o <<Digits[(n % 10) + 1]>>

(* The end (last index) of the maximal run of characters satisfying the     *)
(* class that starts at index i; i - 1 when s[i] is not in the class.       *)
RECURSIVE DigitRunEnd(_, _)
DigitRunEnd(s, i) ==
    IF i <= Len(s) /\ IsDigit(s[i]) THEN DigitRunEnd(s, i + 1) ELSE i - 1

RECURSIVE UpperRunEnd(_, _)
UpperRunEnd(s, i) ==
    IF i <= Len(s) /\ IsUpper(s[i]) THEN UpperRunEnd(s, i + 1) ELSE i - 1

HasPrefixAt(s, i, p) ==
    /\ i + Len(p) - 1 <= Len(s)
    /\ \A k \in 1..Len(p) : s[i + k - 1] = p[k]

(* CAST(<digits> AS INT) on a decimal numeral. *)
RECURSIVE ParseNat(_)
ParseNat(s) ==
    IF s = <<>> THEN 0
    ELSE 10 * ParseNat(SubSeq(s, 1, Len(s) - 1)) + DigitVal(s[Len(s)])

(* REGEXP_EXTRACT(s, '([0-9]+\.[0-9]+)', 1): the leftmost match, greedy; the *)
(* empty string when nothing matches.                                       *)
MajorMinorMatchesAt(s, i) ==
    /\ IsDigit(s[i])
    /\ LET e == DigitRunEnd(s, i)
       IN  /\ e + 2 <= Len(s)
           /\ s[e + 1] = "."
           /\ IsDigit(s[e + 2])

RegexpExtractMajorMinor(s) ==
    LET starts == {i \in 1..Len(s) : MajorMinorMatchesAt(s, i)}
    IN  IF starts = {} THEN <<>>
        ELSE LET i == CHOOSE k \in starts : \A j \in starts : k <= j
                 e == DigitRunEnd(s, i)
             IN  SubSeq(s, i, DigitRunEnd(s, e + 2))

(* REGEXP_EXTRACT(s, 'Standard_([A-Z]+)', 1) *)
StandardPrefix == <<"S", "t", "a", "n", "d", "a", "r", "d", "_">>

RegexpExtractSeries(s) ==
    LET n == Len(StandardPrefix)
        starts == {i \in 1..Len(s) :
                      /\ HasPrefixAt(s, i, StandardPrefix)
                      /\ i + n <= Len(s)
                      /\ IsUpper(s[i + n])}
    IN  IF starts = {} THEN <<>>
        ELSE LET i == CHOOSE k \in starts : \A j \in starts : k <= j
             IN  SubSeq(s, i + n, UpperRunEnd(s, i + n))

(* REGEXP_EXTRACT(s, '_v([0-9]+)', 1) *)
RegexpExtractGen(s) ==
    LET starts == {i \in 1..Len(s) :
                      /\ HasPrefixAt(s, i, <<"_", "v">>)
                      /\ i + 2 <= Len(s)
                      /\ IsDigit(s[i + 2])}
    IN  IF starts = {} THEN <<>>
        ELSE LET i == CHOOSE k \in starts : \A j \in starts : k <= j
             IN  SubSeq(s, i + 2, DigitRunEnd(s, i + 2))

(* TRY_CAST(str AS INT): NULL for the empty string and on 32-bit overflow.  *)
TryCastInt(s) ==
    IF s = <<>> THEN Null
    ELSE IF ParseNat(s) > 2147483647 THEN Null ELSE Some(ParseNat(s))

(* s LIKE '<letter>%' *)
LikePrefix(s, letter) == Len(s) >= 1 /\ s[1] = letter

LowerCase == <<"a", "b", "c", "d", "e", "f", "g", "h", "i", "j", "k", "l", "m",
               "n", "o", "p", "q", "r", "s", "t", "u", "v", "w", "x", "y", "z">>

(* LOWER(s) *)
Lower(s) ==
    [i \in 1..Len(s) |->
        IF IsUpper(s[i]) THEN LowerCase[UpperRank(s[i])] ELSE s[i]]

(* s LIKE '%sub%' *)
LikeContains(s, sub) ==
    \E i \in 1..Len(s) : HasPrefixAt(s, i, sub)

----------------------------------------------------------------------------
(* Dates *)

(* Day number of the civil date y-m-d (days since 1970-01-01), as           *)
(* DATE('yyyy-mm-dd') and datetime.strptime(...).date() produce it.         *)
DateToDays(y, m, d) ==
    LET yy  == IF m <= 2 THEN y - 1 ELSE y
        era == yy \div 400
        yoe == yy - era * 400
        mp  == IF m > 2 THEN m - 3 ELSE m + 9
        doy == (153 * mp + 2) \div 5 + d - 1
        doe == yoe * 365 + yoe \div 4 - yoe \div 100 + doy
    IN  era * 146097 + doe - 719468

(* DATE(s) for s of the form 'yyyy-mm-dd'. *)
ParseDate(s) ==
    DateToDays(ParseNat(SubSeq(s, 1, 4)), ParseNat(SubSeq(s, 6, 7)),
               ParseNat(SubSeq(s, 9, 10)))

(* DATEDIFF(end, start) *)
DateDiff(endDay, startDay) == endDay - startDay

(* date_sub(current_date(), lookback_days) *)
WindowStart == today - lookback_days

----------------------------------------------------------------------------
(* Reference data: the DBR LTS support schedule (temp view dbr_lts_support) *)

dbr_lts_support ==
    { [lts_version    |-> <<"1", "7", ".", "3">>,
       end_of_support |-> <<"2", "0", "2", "8", "-", "1", "0", "-", "2", "2">>],
      [lts_version    |-> <<"1", "6", ".", "4">>,
       end_of_support |-> <<"2", "0", "2", "8", "-", "0", "5", "-", "0", "9">>],
      [lts_version    |-> <<"1", "5", ".", "4">>,
       end_of_support |-> <<"2", "0", "2", "7", "-", "0", "8", "-", "1", "9">>],
      [lts_version    |-> <<"1", "4", ".", "3">>,
       end_of_support |-> <<"2", "0", "2", "7", "-", "0", "2", "-", "0", "1">>],
      [lts_version    |-> <<"1", "3", ".", "3">>,
       end_of_support |-> <<"2", "0", "2", "6", "-", "0", "8", "-", "2", "2">>],
      [lts_version    |-> <<"1", "2", ".", "2">>,
       end_of_support |-> <<"2", "0", "2", "6", "-", "0", "3", "-", "0", "1">>] }

(* dbr_support_df.createOrReplaceTempView("dbr_lts_support"): the rows the   *)
(* queries read from the view.  A query that names the view before it is    *)
(* registered raises (ViewMissing).                                         *)
ViewMissing == IsNull(dbr_lts_support_view)
SupportView == IF ViewMissing THEN {} ELSE Val(dbr_lts_support_view)

(* Mutation of ReferenceStatus: the one-year boundary taken inclusive. *)
ReferenceStatusInclusive(days_left) ==
    IF days_left < 0 THEN "EXPIRED"
    ELSE IF days_left < 180 THEN "CRITICAL"
    ELSE IF days_left <= 365 THEN "WARNING"
    ELSE "SUPPORTED"

(* The if/elif chain of the reference-table loop. *)
ReferenceStatus(days_left) ==
    IF days_left < 0 THEN "EXPIRED"
    ELSE IF days_left < 180 THEN "CRITICAL"
    ELSE IF days_left < 365 THEN "WARNING"
    ELSE "SUPPORTED"

(* One printed line of the loop: days_left = (eos_date - today).days. *)
ReferenceRow(row) ==
    LET days_left == ParseDate(row.end_of_support) - today
    IN  [version        |-> row.lts_version,
         end_of_support |-> row.end_of_support,
         days_left      |-> days_left,
         status         |-> ReferenceStatus(days_left)]

(* Mutation of RunDbrReference: the table is printed but the view is not    *)
(* registered.                                                              *)
RunDbrReferencePrintOnly ==
    /\ pc = "dbr_reference"
    /\ reference_table' = {ReferenceRow(row) : row \in dbr_lts_support}
    /\ pc' = NextCell("dbr_reference")
    /\ UNCHANGED <<inputs, result, summary_data, output_tables, workspace_options,
                   dbr_lts_support_view, summary_df, printed,
                   configuration_summary, first_run>>

(* Cell: register the temp view and print the reference table (the order of *)
(* the printed lines is not kept).                                          *)
RunDbrReference ==
    /\ pc = "dbr_reference"
    /\ dbr_lts_support_view' = Some(dbr_lts_support)
    /\ reference_table' = {ReferenceRow(row) : row \in dbr_lts_support}
    /\ pc' = NextCell("dbr_reference")
    /\ UNCHANGED <<inputs, result, summary_data, output_tables, workspace_options,
                   summary_df, printed, configuration_summary, first_run>>

----------------------------------------------------------------------------
(* Configuration *)

(* Mutation of WorkspaceClause: the filter value not applied. *)
WorkspaceClauseAlwaysAll(c) == c.workspace_id = c.workspace_id

(* workspace_clause: "1=1" when the filter is ALL, else workspace_id = '..' *)
WorkspaceClause(c) ==
    IF workspace_filter = "ALL" THEN TRUE
    ELSE c.workspace_id = workspace_filter

(* Mutation of ActiveClusters: without the delete_time test. *)
ClustersChangedInWindow ==
    {c \in clusters : c.change_time >= WindowStart /\ WorkspaceClause(c)}

(* WHERE c.delete_time IS NULL AND c.change_time >= date_sub(...) AND       *)
(* {workspace_clause}: the base cluster list of every query.                *)
ActiveClusters ==
    {c \in clusters :
        /\ IsNull(c.delete_time)
        /\ c.change_time >= WindowStart
        /\ WorkspaceClause(c)}

(* SELECT DISTINCT workspace_id FROM system.compute.clusters WHERE          *)
(* workspace_id IS NOT NULL: the workspace ids of every cluster record.     *)
AvailableWorkspaces == {c.workspace_id : c \in clusters}

(* Mutation of AvailableWorkspaces: only the clusters of the analyses. *)
ActiveWorkspaces == {c.workspace_id : c \in ActiveClusters}

(* workspace_options: ["ALL"] + available_workspaces, or ["ALL"] alone when *)
(* the query raises.                                                        *)
WorkspaceOptions ==
    IF "workspace_ids" \in failing THEN {"ALL"} ELSE {"ALL"} \cup AvailableWorkspaces

(* The output location: f"{output_catalog}.{output_schema}". *)
output_location == <<output_catalog, output_schema>>

(* The values printed in the CONFIGURATION SUMMARY box of                   *)
(* Cluster_Optimization_Analysis.                                           *)
ConfigurationSummary ==
    [lookback_days              |-> lookback_days,
     latest_lts_version         |-> Some(latest_lts_version),
     driver_cpu_threshold       |-> Some(driver_cpu_threshold),
     driver_memory_gb_threshold |-> Some(driver_memory_gb_threshold),
     workspace_filter           |-> workspace_filter,
     output_location            |-> output_location,
     vm_threshold               |-> Some(vm_threshold)]

(* The values printed under "Analysis Configuration" by                     *)
(* Resource_Utilization_Analysis, which has no other widgets.               *)
RuConfigurationSummary ==
    [lookback_days              |-> lookback_days,
     latest_lts_version         |-> Null,
     driver_cpu_threshold       |-> Null,
     driver_memory_gb_threshold |-> Null,
     workspace_filter           |-> workspace_filter,
     output_location            |-> output_location,
     vm_threshold               |-> Null]

(* Cells: create the widgets of Cluster_Optimization_Analysis, read them    *)
(* and print the configuration summary.                                     *)
RunWidgets ==
    /\ pc = "widgets"
    /\ workspace_options' = WorkspaceOptions
    /\ configuration_summary' = Append(configuration_summary, ConfigurationSummary)
    /\ pc' = NextCell("widgets")
    /\ UNCHANGED <<inputs, result, summary_data, output_tables,
                   dbr_lts_support_view, reference_table, summary_df, printed, first_run>>

(* Cells: create the widgets of Resource_Utilization_Analysis, read them    *)
(* and print the configuration.                                             *)
RunRuWidgets ==
    /\ pc = "ru_widgets"
    /\ workspace_options' = WorkspaceOptions
    /\ configuration_summary' = Append(configuration_summary, RuConfigurationSummary)
    /\ pc' = NextCell("ru_widgets")
    /\ UNCHANGED <<inputs, result, summary_data, output_tables,
                   dbr_lts_support_view, reference_table, summary_df, printed, first_run>>

----------------------------------------------------------------------------
(* Cost attribution: the cluster_costs CTE *)

(* ROUND(x, 2), HALF_UP, of a value given in thousandths; in hundredths.    *)
Round2(x) == IF x >= 0 THEN (x + 5) \div 10 ELSE -((-x + 5) \div 10)

(* Mutation of PriceJoinOn: the validity interval closed at its end.        *)
PriceJoinOnClosedEnd(u, lp) ==
    /\ u.sku_name = lp.sku_name
    /\ u.usage_start_time >= lp.price_start_time
    /\ (IsNull(lp.price_end_time) \/ u.usage_start_time <= Val(lp.price_end_time))

(* The ON clause of usage LEFT JOIN list_prices. *)
PriceJoinOn(u, lp) ==
    /\ u.sku_name = lp.sku_name
    /\ u.usage_start_time >= lp.price_start_time
    /\ (IsNull(lp.price_end_time) \/ u.usage_start_time < Val(lp.price_end_time))

(* Mutation of UsageInWindow: the lookback condition on usage left out.     *)
UsageAnyTime == {u \in usage : ~IsNull(u.cluster_id)}

(* WHERE u.usage_start_time >= date_sub(...) AND cluster_id IS NOT NULL *)
UsageInWindow ==
    {u \in usage :
        /\ u.usage_start_time >= WindowStart
        /\ ~IsNull(u.cluster_id)}

(* Mutation of UsageJoinPrices: an inner join, which drops the usage        *)
(* records that match no price entry.                                       *)
UsageInnerJoinPrices ==
    {[u |-> p[1], lp |-> Some(p[2])] : p \in
        {q \in UsageInWindow \X list_prices : PriceJoinOn(q[1], q[2])}}

(* usage u LEFT JOIN list_prices lp: one row per matching price entry, and  *)
(* one row with a NULL price side for a usage record that matches none.     *)
UsageJoinPrices ==
    {[u |-> p[1], lp |-> Some(p[2])] : p \in
        {q \in UsageInWindow \X list_prices : PriceJoinOn(q[1], q[2])}}
    \cup
    {[u |-> u, lp |-> Null] : u \in
        {w \in UsageInWindow : \A lp \in list_prices : ~PriceJoinOn(w, lp)}}

(* u.usage_quantity * COALESCE(lp.pricing.default, 0) *)
RowCost(j) ==
    j.u.usage_quantity * (IF IsNull(j.lp) THEN 0 ELSE Val(j.lp).price)

RECURSIVE SumQuantity(_)
SumQuantity(J) ==
    IF J = {} THEN 0
    ELSE LET j == CHOOSE x \in J : TRUE
         IN  j.u.usage_quantity + SumQuantity(J \ {j})

RECURSIVE SumCost(_)
SumCost(J) ==
    IF J = {} THEN 0
    ELSE LET j == CHOOSE x \in J : TRUE
         IN  RowCost(j) + SumCost(J \ {j})

(* GROUP BY u.usage_metadata.cluster_id: the groups and their sums.         *)
CostGroup(cid) == {j \in UsageJoinPrices : Val(j.u.cluster_id) = cid}

(* cluster_costs with ROUND(SUM(..), 2) (cluster-level queries); NULL when  *)
(* the LEFT JOIN ... ON cluster_id finds no group for the cluster.          *)
ClusterCostsRounded(cid) ==
    IF CostGroup(cid) = {} THEN Null
    ELSE Some([total_dbus     |-> Round2(SumQuantity(CostGroup(cid))),
               total_cost_usd |-> Round2(SumCost(CostGroup(cid)))])

(* cluster_costs with plain SUM(..) (distribution and summary queries).     *)
ClusterCostsRaw(cid) ==
    IF CostGroup(cid) = {} THEN Null
    ELSE Some([total_dbus     |-> SumQuantity(CostGroup(cid)),
               total_cost_usd |-> SumCost(CostGroup(cid))])

----------------------------------------------------------------------------
(* Sorting: ORDER BY yields some arrangement of the rows in which no row    *)
(* strictly precedes, by the sort keys, a row placed before it; rows that   *)
(* tie on every key may come in either order.                               *)

RECURSIVE Perms(_)
Perms(S) ==
    IF S = {} THEN {<<>>}
    ELSE UNION {{<<x>> \o p : p \in Perms(S \ {x})} : x \in S}

(* x DESC NULLS LAST on nullable values: a sorts strictly before b. *)
DescNullsLastBefore(a, b) ==
    \/ ~IsNull(a) /\ IsNull(b)
    \/ ~IsNull(a) /\ ~IsNull(b) /\ Val(a) > Val(b)

----------------------------------------------------------------------------
(* Section 1: outdated DBR versions *)

(* NULL-aware x < k: unknown (not true) when x is NULL. *)
LessThan(x, k) == ~IsNull(x) /\ Val(x) < k

(* cluster_dbr LEFT JOIN dbr_lts_support ON dbr_major_minor = lts_version,  *)
(* over the active clusters.                                                *)
ClusterWithSupport ==
    LET Matches(c) ==
            {s \in SupportView :
                RegexpExtractMajorMinor(c.dbr_version) = s.lts_version}
    IN  UNION {
          IF Matches(c) = {}
          THEN {[c |-> c, dbr_major_minor |-> RegexpExtractMajorMinor(c.dbr_version),
                 lts_version |-> Null, end_of_support |-> Null,
                 days_until_eos |-> Null]}
          ELSE {[c |-> c, dbr_major_minor |-> RegexpExtractMajorMinor(c.dbr_version),
                 lts_version |-> Some(s.lts_version),
                 end_of_support |-> Some(s.end_of_support),
                 days_until_eos |->
                     Some(DateDiff(ParseDate(s.end_of_support), today))]
                : s \in Matches(c)}
          : c \in ActiveClusters}

(* Mutation of SupportStatus: the 6-month boundary taken inclusive (<= 180). *)
SupportStatusInclusive(lts_version, days_until_eos) ==
    IF IsNull(lts_version) THEN "CRITICAL (Non-LTS)"
    ELSE IF LessThan(days_until_eos, 0) THEN "EXPIRED"
    ELSE IF LessThan(days_until_eos, 181) THEN "CRITICAL (<6 months)"
    ELSE IF LessThan(days_until_eos, 365) THEN "WARNING (<1 year)"
    ELSE "SUPPORTED"

(* Mutation of SupportStatus: the version named by the latest_lts_version   *)
(* widget is reported as supported whatever its date.                       *)
SupportStatusLatestSupported(lts_version, days_until_eos) ==
    IF IsNull(lts_version) THEN "CRITICAL (Non-LTS)"
    ELSE IF lts_version = Some(latest_lts_version) THEN "SUPPORTED"
    ELSE IF LessThan(days_until_eos, 0) THEN "EXPIRED"
    ELSE IF LessThan(days_until_eos, 180) THEN "CRITICAL (<6 months)"
    ELSE IF LessThan(days_until_eos, 365) THEN "WARNING (<1 year)"
    ELSE "SUPPORTED"

(* CASE ... END AS support_status of the cluster-level query. *)
SupportStatus(lts_version, days_until_eos) ==
    IF IsNull(lts_version) THEN "CRITICAL (Non-LTS)"
    ELSE IF LessThan(days_until_eos, 0) THEN "EXPIRED"
    ELSE IF LessThan(days_until_eos, 180) THEN "CRITICAL (<6 months)"
    ELSE IF LessThan(days_until_eos, 365) THEN "WARNING (<1 year)"
    ELSE "SUPPORTED"

(* Mutation of OutdatedDbrOrderKey: Non-LTS rows given the NULL sentinel.    *)
OutdatedDbrOrderKeyNonLtsLast(lts_version, days_until_eos) ==
    IF IsNull(lts_version) THEN 9999
    ELSE IF IsNull(days_until_eos) THEN 9999
    ELSE Val(days_until_eos)

(* The first ORDER BY key of the cluster-level query. *)
OutdatedDbrOrderKey(lts_version, days_until_eos) ==
    IF IsNull(lts_version) THEN -1
    ELSE IF IsNull(days_until_eos) THEN 9999
    ELSE Val(days_until_eos)

(* The SELECT list of the cluster-level query, for one joined row; the      *)
(* last two fields are the ORDER BY expressions, which are not displayed.   *)
OutdatedDbrRow(cws) ==
    LET cc == ClusterCostsRounded(cws.c.cluster_id)
    IN  [cluster_id     |-> cws.c.cluster_id,
         workspace_id   |-> cws.c.workspace_id,
         dbr_family     |-> Coalesce(cws.lts_version, cws.dbr_major_minor),
         version_type   |-> IF ~IsNull(cws.lts_version) THEN "LTS" ELSE "Non-LTS",
         days_until_eos |-> cws.days_until_eos,
         support_status |-> SupportStatus(cws.lts_version, cws.days_until_eos),
         total_dbus     |-> IF IsNull(cc) THEN 0 ELSE Val(cc).total_dbus,
         total_cost_usd |-> IF IsNull(cc) THEN 0 ELSE Val(cc).total_cost_usd,
         order_key      |-> OutdatedDbrOrderKey(cws.lts_version, cws.days_until_eos),
         order_cost     |-> IF IsNull(cc) THEN Null ELSE Some(Val(cc).total_cost_usd)]

(* ORDER BY CASE ... END ASC, cc.total_cost_usd DESC NULLS LAST *)
OutdatedDbrBefore(a, b) ==
    \/ a.order_key < b.order_key
    \/ a.order_key = b.order_key /\ DescNullsLastBefore(a.order_cost, b.order_cost)

OutdatedDbrResults ==
    LET cws == ClusterWithSupport
        row == [x \in cws |-> OutdatedDbrRow(x)]
    IN  {[i \in 1..Len(p) |-> row[p[i]]] : p \in
            {q \in Perms(cws) :
                \A i, j \in 1..Len(q) :
                    i < j => ~OutdatedDbrBefore(row[q[j]], row[q[i]])}}

(* Cell: display(spark.sql(outdated_dbr_query)) *)
RunOutdatedDbr ==
    /\ pc = "outdated_dbr"
    /\ IF "outdated_dbr" \in failing \/ ViewMissing
       THEN /\ pc' = AfterAbort("outdated_dbr")
            /\ UNCHANGED result
       ELSE /\ \E r \in OutdatedDbrResults :
                  result' = [result EXCEPT !["outdated_dbr"] = Some(r)]
            /\ pc' = NextCell("outdated_dbr")
    /\ UNCHANGED <<inputs, summary_data, output_tables, workspace_options, session>>

(* ---- DBR version distribution summary ---- *)

(* SUM(COALESCE(cc.total_dbus, 0)) and SUM(COALESCE(cc.total_cost_usd, 0))  *)
(* over a set of cluster rows LEFT JOINed to the unrounded cluster_costs.   *)
RECURSIVE SumClusterDbus(_)
SumClusterDbus(G) ==
    IF G = {} THEN 0
    ELSE LET g == CHOOSE x \in G : TRUE
             cc == ClusterCostsRaw(g.c.cluster_id)
         IN  (IF IsNull(cc) THEN 0 ELSE Val(cc).total_dbus)
             + SumClusterDbus(G \ {g})

RECURSIVE SumClusterCost(_)
SumClusterCost(G) ==
    IF G = {} THEN 0
    ELSE LET g == CHOOSE x \in G : TRUE
             cc == ClusterCostsRaw(g.c.cluster_id)
         IN  (IF IsNull(cc) THEN 0 ELSE Val(cc).total_cost_usd)
             + SumClusterCost(G \ {g})

(* Mutation of PctOfTotal: the percentage cut off after two decimals        *)
(* instead of rounded.                                                      *)
PctOfTotalTruncated(part, total) ==
    IF total = 0 THEN <<>> ELSE <<(part * 10000) \div total>>

(* Mutation of PctOfTotal: 0 instead of NULL when the total is 0. *)
PctOfTotalZeroDefault(part, total) ==
    IF total = 0 THEN <<0>>
    ELSE <<(2 * part * 10000 + total) \div (2 * total)>>

(* ROUND(part * 100.0 / NULLIF(total, 0), 2): NULL when the total is 0,     *)
(* else the percentage in hundredths of a percent, rounded HALF_UP.         *)
PctOfTotal(part, total) ==
    IF total = 0 THEN Null
    ELSE LET whole == (part * 100) \div total
             rest  == (part * 100) % total
             cents == (rest * 100) \div total
             last  == (rest * 100) % total
         IN  Some(whole * 100 + cents + (IF 2 * last >= total THEN 1 ELSE 0))

(* CASE ... END AS status of the distribution query. *)
DistributionStatus(end_of_support, days_remaining) ==
    IF IsNull(end_of_support) THEN "CRITICAL (Non-LTS)"
    ELSE IF LessThan(days_remaining, 0) THEN "EXPIRED"
    ELSE IF LessThan(days_remaining, 180) THEN "CRITICAL"
    ELSE IF LessThan(days_remaining, 365) THEN "WARNING"
    ELSE "SUPPORTED"

(* ORDER BY CASE WHEN end_of_support IS NULL THEN -1                        *)
(*          ELSE COALESCE(days_remaining, 9999) END ASC                     *)
DistributionOrderKey(end_of_support, days_remaining) ==
    IF IsNull(end_of_support) THEN -1 ELSE Coalesce(days_remaining, 9999)

(* GROUP BY cws.dbr_family, cws.end_of_support, cws.days_remaining *)
DistributionGroupKey(cws) ==
    <<Coalesce(cws.lts_version, cws.dbr_major_minor), cws.end_of_support,
      cws.days_until_eos>>

DistributionRow(all, k) ==
    LET G == {cws \in all : DistributionGroupKey(cws) = k}
    IN  [dbr_version    |-> <<"D", "B", "R", " ">> \o k[1],
         end_of_support |-> k[2],
         days_remaining |-> Coalesce(k[3], 0),
         status         |-> DistributionStatus(k[2], k[3]),
         cluster_count  |-> Cardinality({g.c.cluster_id : g \in G}),
         total_dbus     |-> Round2(SumClusterDbus(G)),
         total_cost_usd |-> Round2(SumClusterCost(G)),
         pct_of_total_cost |->
             PctOfTotal(SumClusterCost(G), SumClusterCost(all)),
         order_key      |-> DistributionOrderKey(k[2], k[3])]

DbrDistributionResults ==
    LET cws  == ClusterWithSupport
        keys == {DistributionGroupKey(x) : x \in cws}
        row  == [k \in keys |-> DistributionRow(cws, k)]
    IN  {[i \in 1..Len(p) |-> row[p[i]]] : p \in
            {q \in Perms(keys) :
                \A i, j \in 1..Len(q) :
                    i < j => row[q[i]].order_key <= row[q[j]].order_key}}

(* Cell: display(spark.sql(dbr_distribution_query)) *)
RunDbrDistribution ==
    /\ pc = "dbr_distribution"
    /\ IF "dbr_distribution" \in failing \/ ViewMissing
       THEN /\ pc' = AfterAbort("dbr_distribution")
            /\ UNCHANGED result
       ELSE /\ \E r \in DbrDistributionResults :
                  result' = [result EXCEPT !["dbr_distribution"] = Some(r)]
            /\ pc' = NextCell("dbr_distribution")
    /\ UNCHANGED <<inputs, summary_data, output_tables, workspace_options, session>>

----------------------------------------------------------------------------
(* Section 2: older VM generations *)

(* Mutation of SeriesThreshold: the series compared for equality with the   *)
(* letter instead of LIKE '<letter>%'.                                      *)
SeriesThresholdExact(series) ==
    IF series = <<"D">> THEN vm_threshold.D
    ELSE IF series = <<"E">> THEN vm_threshold.E
    ELSE IF series = <<"F">> THEN vm_threshold.F
    ELSE IF series = <<"L">> THEN vm_threshold.L
    ELSE IF series = <<"M">> THEN vm_threshold.M
    ELSE IF series = <<"N">> THEN vm_threshold.N
    ELSE vm_threshold.default

(* CASE WHEN series LIKE 'D%' THEN {vm_threshold_D} ... ELSE default END *)
SeriesThreshold(series) ==
    IF LikePrefix(series, "D") THEN vm_threshold.D
    ELSE IF LikePrefix(series, "E") THEN vm_threshold.E
    ELSE IF LikePrefix(series, "F") THEN vm_threshold.F
    ELSE IF LikePrefix(series, "L") THEN vm_threshold.L
    ELSE IF LikePrefix(series, "M") THEN vm_threshold.M
    ELSE IF LikePrefix(series, "N") THEN vm_threshold.N
    ELSE vm_threshold.default

(* clusters_with_vm_info and clusters_with_thresholds, for one cluster. *)
ClusterWithThresholds(c) ==
    [c |-> c,
     driver_series |-> RegexpExtractSeries(c.driver_node_type),
     worker_series |-> RegexpExtractSeries(c.worker_node_type),
     driver_gen |-> TryCastInt(RegexpExtractGen(c.driver_node_type)),
     worker_gen |-> TryCastInt(RegexpExtractGen(c.worker_node_type)),
     driver_threshold |-> SeriesThreshold(RegexpExtractSeries(c.driver_node_type)),
     worker_threshold |-> SeriesThreshold(RegexpExtractSeries(c.worker_node_type))]

(* Mutation of GenOrAssumed: a missing generation taken as generation 0.    *)
GenOrZero(gen) == Coalesce(gen, 0)

(* COALESCE(gen, 99) *)
GenOrAssumed(gen) == Coalesce(gen, 99)

(* Mutation of BelowRecommended: the comparison taken inclusive (<=).       *)
BelowOrAtRecommended(ct) ==
    \/ GenOrAssumed(ct.driver_gen) <= ct.driver_threshold
    \/ GenOrAssumed(ct.worker_gen) <= ct.worker_threshold

(* COALESCE(driver_gen, 99) < driver_threshold                              *)
(*    OR COALESCE(worker_gen, 99) < worker_threshold                        *)
BelowRecommended(ct) ==
    \/ GenOrAssumed(ct.driver_gen) < ct.driver_threshold
    \/ GenOrAssumed(ct.worker_gen) < ct.worker_threshold

(* COALESCE(CAST(gen AS STRING), 'N/A') *)
GenerationDisplay(gen) ==
    IF IsNull(gen) THEN <<"N", "/", "A">> ELSE IntToString(Val(gen))

(* t LEFT JOIN system.compute.node_types nt ON name = nt.node_type: the     *)
(* matching node-type rows, or one NULL row.                                *)
NodeTypeLeftJoin(name) ==
    LET found == {nt \in node_types : nt.node_type = name}
    IN  IF found = {} THEN {Null} ELSE {Some(nt) : nt \in found}

(* ROUND(memory_mb / 1024, 1), in tenths of a GB. *)
MemoryGbRound1(mb) == (20 * mb + 1024) \div 2048

Least(a, b) == IF a <= b THEN a ELSE b

(* FROM clusters_with_thresholds ct LEFT JOIN node_types (driver)           *)
(*   LEFT JOIN node_types (worker) LEFT JOIN cluster_costs WHERE ...        *)
OldVmJoined ==
    UNION {
      {[ct |-> ClusterWithThresholds(c), nt_driver |-> d, nt_worker |-> w]
          : <<d, w>> \in NodeTypeLeftJoin(c.driver_node_type)
                         \X NodeTypeLeftJoin(c.worker_node_type)}
      : c \in {x \in ActiveClusters : BelowRecommended(ClusterWithThresholds(x))}}

(* The SELECT list of the cluster-level VM query; order_gen and order_cost  *)
(* are the ORDER BY expressions.                                            *)
OldVmRow(j) ==
    LET ct == j.ct
        cc == ClusterCostsRounded(ct.c.cluster_id)
    IN  [cluster_id             |-> ct.c.cluster_id,
         workspace_id           |-> ct.c.workspace_id,
         driver_node_type       |-> ct.c.driver_node_type,
         driver_series          |-> ct.driver_series,
         driver_vm_generation   |-> GenerationDisplay(ct.driver_gen),
         driver_min_recommended |-> ct.driver_threshold,
         worker_node_type       |-> ct.c.worker_node_type,
         worker_series          |-> ct.worker_series,
         worker_vm_generation   |-> GenerationDisplay(ct.worker_gen),
         worker_min_recommended |-> ct.worker_threshold,
         vm_status              |-> IF BelowRecommended(ct) THEN "Below Recommended"
                                    ELSE "Meets Threshold",
         driver_cores           |-> IF IsNull(j.nt_driver) THEN Null
                                    ELSE Some(Val(j.nt_driver).core_count),
         driver_memory_gb       |-> IF IsNull(j.nt_driver) THEN Null
                                    ELSE Some(MemoryGbRound1(Val(j.nt_driver).memory_mb)),
         worker_cores           |-> IF IsNull(j.nt_worker) THEN Null
                                    ELSE Some(Val(j.nt_worker).core_count),
         worker_memory_gb       |-> IF IsNull(j.nt_worker) THEN Null
                                    ELSE Some(MemoryGbRound1(Val(j.nt_worker).memory_mb)),
         total_dbus             |-> IF IsNull(cc) THEN 0 ELSE Val(cc).total_dbus,
         total_cost_usd         |-> IF IsNull(cc) THEN 0 ELSE Val(cc).total_cost_usd,
         order_gen              |-> Least(GenOrAssumed(ct.driver_gen),
                                          GenOrAssumed(ct.worker_gen)),
         order_cost             |-> IF IsNull(cc) THEN Null
                                    ELSE Some(Val(cc).total_cost_usd)]

(* ORDER BY LEAST(...), cc.total_cost_usd DESC NULLS LAST *)
OldVmBefore(a, b) ==
    \/ a.order_gen < b.order_gen
    \/ a.order_gen = b.order_gen /\ DescNullsLastBefore(a.order_cost, b.order_cost)

OldVmResults ==
    LET joined == OldVmJoined
        row == [x \in joined |-> OldVmRow(x)]
    IN  {[i \in 1..Len(p) |-> row[p[i]]] : p \in
            {q \in Perms(joined) :
                \A i, j \in 1..Len(q) : i < j => ~OldVmBefore(row[q[j]], row[q[i]])}}

(* Cell: display(spark.sql(old_vm_query)) *)
RunOldVm ==
    /\ pc = "old_vm"
    /\ IF "old_vm" \in failing
       THEN /\ pc' = AfterAbort("old_vm")
            /\ UNCHANGED result
       ELSE /\ \E r \in OldVmResults :
                  result' = [result EXCEPT !["old_vm"] = Some(r)]
            /\ pc' = NextCell("old_vm")
    /\ UNCHANGED <<inputs, summary_data, output_tables, workspace_options, session>>

----------------------------------------------------------------------------
(* VM generation distribution by series (driver node type only) *)

(* clusters_with_vm_info of the distribution query: active clusters whose   *)
(* driver node type carries a non-empty _v<N> suffix.                       *)
DistributionVmInfo ==
    {[c |-> c,
      vm_series |-> RegexpExtractSeries(c.driver_node_type),
      vm_gen_str |-> RegexpExtractGen(c.driver_node_type),
      vm_gen_int |-> TryCastInt(RegexpExtractGen(c.driver_node_type)),
      min_threshold |-> SeriesThreshold(RegexpExtractSeries(c.driver_node_type))]
        : c \in {x \in ActiveClusters : RegexpExtractGen(x.driver_node_type) # <<>>}}

(* GROUP BY cwi.vm_series, cwi.vm_gen_str, cwi.vm_gen_int, cwi.min_threshold *)
VmGroupKey(cwi) == <<cwi.vm_series, cwi.vm_gen_str, cwi.vm_gen_int, cwi.min_threshold>>

VmDistributionRow(all, k) ==
    LET G == {cwi \in all : VmGroupKey(cwi) = k}
    IN  [series          |-> k[1],
         vm_generation   |-> <<"v">> \o k[2],
         min_recommended |-> <<"v">> \o IntToString(k[4]),
         cluster_count   |-> Cardinality({g.c.cluster_id : g \in G}),
         status          |-> IF LessThan(k[3], k[4]) THEN "Below Threshold"
                             ELSE "Meets Threshold",
         total_dbus      |-> Round2(SumClusterDbus(G)),
         total_cost_usd  |-> Round2(SumClusterCost(G)),
         pct_of_total_cost |->
             PctOfTotal(SumClusterCost(G), SumClusterCost(all)),
         order_gen       |-> Coalesce(k[3], -1)]

(* ORDER BY cwi.vm_series, cwi.vm_gen_int (ascending, NULL first) *)
VmDistributionBefore(a, b) ==
    \/ UpperStringLess(a.series, b.series)
    \/ a.series = b.series /\ a.order_gen < b.order_gen

VmDistributionResults ==
    LET all  == DistributionVmInfo
        keys == {VmGroupKey(x) : x \in all}
        row  == [k \in keys |-> VmDistributionRow(all, k)]
    IN  {[i \in 1..Len(p) |-> row[p[i]]] : p \in
            {q \in Perms(keys) :
                \A i, j \in 1..Len(q) :
                    i < j => ~VmDistributionBefore(row[q[j]], row[q[i]])}}

(* Cell: display(spark.sql(vm_distribution_query)) *)
RunVmDistribution ==
    /\ pc = "vm_distribution"
    /\ IF "vm_distribution" \in failing
       THEN /\ pc' = AfterAbort("vm_distribution")
            /\ UNCHANGED result
       ELSE /\ \E r \in VmDistributionResults :
                  result' = [result EXCEPT !["vm_distribution"] = Some(r)]
            /\ pc' = NextCell("vm_distribution")
    /\ UNCHANGED <<inputs, summary_data, output_tables, workspace_options, session>>

----------------------------------------------------------------------------
(* Section 3: oversized drivers *)

(* nt.core_count > {driver_cpu_threshold}                                   *)
(*    OR nt.memory_mb / 1024 > {driver_memory_gb_threshold}                 *)
(* Mutation of DriverOversized: the thresholds themselves count as too     *)
(* large.                                                                   *)
DriverOversizedInclusive(nt) ==
    \/ nt.core_count >= driver_cpu_threshold
    \/ nt.memory_mb >= 1024 * driver_memory_gb_threshold

DriverOversized(nt) ==
    \/ nt.core_count > driver_cpu_threshold
    \/ nt.memory_mb > 1024 * driver_memory_gb_threshold

(* clusters c JOIN node_types nt ON c.driver_node_type = nt.node_type       *)
(* WHERE active AND oversized                                               *)
OversizedJoined ==
    {j \in [c : ActiveClusters, nt : node_types] :
        /\ j.c.driver_node_type = j.nt.node_type
        /\ DriverOversized(j.nt)}

OversizedDriverRow(j) ==
    LET cc == ClusterCostsRounded(j.c.cluster_id)
    IN  [cluster_id       |-> j.c.cluster_id,
         workspace_id     |-> j.c.workspace_id,
         driver_node_type |-> j.c.driver_node_type,
         driver_vcpus     |-> j.nt.core_count,
         driver_memory_gb |-> MemoryGbRound1(j.nt.memory_mb),
         sizing_status    |->
             IF j.nt.core_count > driver_cpu_threshold THEN "vCPUs Too High"
             ELSE IF j.nt.memory_mb > 1024 * driver_memory_gb_threshold
                  THEN "Memory Too High"
             ELSE "Appropriately Sized",
         total_dbus       |-> IF IsNull(cc) THEN 0 ELSE Val(cc).total_dbus,
         total_cost_usd   |-> IF IsNull(cc) THEN 0 ELSE Val(cc).total_cost_usd,
         memory_mb        |-> j.nt.memory_mb,
         order_cost       |-> IF IsNull(cc) THEN Null
                              ELSE Some(Val(cc).total_cost_usd)]

(* ORDER BY cc.total_cost_usd DESC NULLS LAST, nt.core_count DESC,          *)
(*          nt.memory_mb DESC                                               *)
OversizedDriverBefore(a, b) ==
    \/ DescNullsLastBefore(a.order_cost, b.order_cost)
    \/ /\ a.order_cost = b.order_cost
       /\ \/ a.driver_vcpus > b.driver_vcpus
          \/ a.driver_vcpus = b.driver_vcpus /\ a.memory_mb > b.memory_mb

OversizedDriverResults ==
    LET joined == OversizedJoined
        row == [x \in joined |-> OversizedDriverRow(x)]
    IN  {[i \in 1..Len(p) |-> row[p[i]]] : p \in
            {q \in Perms(joined) :
                \A i, j \in 1..Len(q) :
                    i < j => ~OversizedDriverBefore(row[q[j]], row[q[i]])}}

(* Cell: display(spark.sql(oversized_driver_query)) *)
RunOversizedDriver ==
    /\ pc = "oversized_driver"
    /\ IF "oversized_driver" \in failing
       THEN /\ pc' = AfterAbort("oversized_driver")
            /\ UNCHANGED result
       ELSE /\ \E r \in OversizedDriverResults :
                  result' = [result EXCEPT !["oversized_driver"] = Some(r)]
            /\ pc' = NextCell("oversized_driver")
    /\ UNCHANGED <<inputs, summary_data, output_tables, workspace_options, session>>

(* GROUP BY c.driver_node_type, nt.core_count, nt.memory_mb *)
DriverSizingGroupKey(j) == <<j.c.driver_node_type, j.nt.core_count, j.nt.memory_mb>>

DriverSizingRow(all, k) ==
    LET G == {j \in all : DriverSizingGroupKey(j) = k}
    IN  [driver_node_type |-> k[1],
         driver_vcpus     |-> k[2],
         driver_memory_gb |-> MemoryGbRound1(k[3]),
         cluster_count    |-> Cardinality({g.c.cluster_id : g \in G}),
         total_dbus       |-> Round2(SumClusterDbus(G)),
         total_cost_usd   |-> Round2(SumClusterCost(G)),
         pct_of_total_cost |->
             PctOfTotal(SumClusterCost(G), SumClusterCost(all)),
         recommendation   |->
             IF k[2] > 32 THEN "Consider Standard_E8ds_v5 (8 vCPU, 64GB)"
             ELSE IF k[2] > 16 THEN "Consider Standard_E4ds_v5 (4 vCPU, 32GB)"
             ELSE "Review workload requirements"]

(* ORDER BY total_cost_usd DESC *)
DriverSizingSummaryResults ==
    LET all  == OversizedJoined
        keys == {DriverSizingGroupKey(x) : x \in all}
        row  == [k \in keys |-> DriverSizingRow(all, k)]
    IN  {[i \in 1..Len(p) |-> row[p[i]]] : p \in
            {q \in Perms(keys) :
                \A i, j \in 1..Len(q) :
                    i < j => row[q[i]].total_cost_usd >= row[q[j]].total_cost_usd}}

(* Cell: display(spark.sql(driver_sizing_summary_query)) *)
RunDriverSizingSummary ==
    /\ pc = "driver_sizing_summary"
    /\ IF "driver_sizing_summary" \in failing
       THEN /\ pc' = AfterAbort("driver_sizing_summary")
            /\ UNCHANGED result
       ELSE /\ \E r \in DriverSizingSummaryResults :
                  result' = [result EXCEPT !["driver_sizing_summary"] = Some(r)]
            /\ pc' = NextCell("driver_sizing_summary")
    /\ UNCHANGED <<inputs, summary_data, output_tables, workspace_options, session>>

----------------------------------------------------------------------------
(* Section 4: executive summary.  Each of the four queries runs in its own  *)
(* try/except; a query that raises appends no tuple.                        *)

(* COUNT(DISTINCT cluster_id), ROUND(SUM(COALESCE(total_dbus, 0)), 2),      *)
(* ROUND(SUM(COALESCE(total_cost_usd, 0)), 2) over the joined rows J; the   *)
(* sums of an empty input are NULL.                                         *)
SummaryTuple(category, J, recommendation) ==
    [category       |-> category,
     cluster_count  |-> Cardinality({j.c.cluster_id : j \in J}),
     total_dbus     |-> IF J = {} THEN Null ELSE Some(Round2(SumClusterDbus(J))),
     total_cost_usd |-> IF J = {} THEN Null ELSE Some(Round2(SumClusterCost(J))),
     recommendation |-> recommendation]

(* WHERE s.lts_version IS NULL OR DATEDIFF(...) < 180 *)
CriticalDbrRows ==
    {cws \in ClusterWithSupport :
        IsNull(cws.lts_version) \/ LessThan(cws.days_until_eos, 180)}

(* JOIN dbr_lts_support ... WHERE DATEDIFF(...) BETWEEN 180 AND 365 *)
WarningDbrRows ==
    {cws \in ClusterWithSupport :
        /\ ~IsNull(cws.lts_version)
        /\ Val(cws.days_until_eos) >= 180
        /\ Val(cws.days_until_eos) <= 365}

(* clusters_with_threshold of the summary's VM query. *)
ClustersWithThreshold ==
    {[c |-> c,
      driver_gen |-> TryCastInt(RegexpExtractGen(c.driver_node_type)),
      worker_gen |-> TryCastInt(RegexpExtractGen(c.worker_node_type)),
      driver_threshold |-> SeriesThreshold(RegexpExtractSeries(c.driver_node_type)),
      worker_threshold |-> SeriesThreshold(RegexpExtractSeries(c.worker_node_type))]
        : c \in ActiveClusters}

(* WHERE COALESCE(ct.driver_gen, 99) < ct.driver_threshold                  *)
(*    OR COALESCE(ct.worker_gen, 99) < ct.worker_threshold                  *)
OldVmSummaryRows ==
    {ct \in ClustersWithThreshold :
        \/ GenOrAssumed(ct.driver_gen) < ct.driver_threshold
        \/ GenOrAssumed(ct.worker_gen) < ct.worker_threshold}

ExecutiveQueries == {"critical_dbr", "warning_dbr", "summary_old_vm",
      "summary_oversized_driver"}

(* The tuples appended to summary_data when the queries in failed raise.    *)
(* Which queries raise is a condition of the environment (access to the     *)
(* system tables), held in the variable failing.                            *)
SummaryData(failed) ==
    (IF "critical_dbr" \in failed THEN <<>>
     ELSE <<SummaryTuple("DBR Critical (Non-LTS or <6mo to EOS)", CriticalDbrRows,
                         "Immediate upgrade to LTS required")>>)
    \o
    (IF "warning_dbr" \in failed THEN <<>>
     ELSE <<SummaryTuple("DBR Warning (<1 year to EOS)", WarningDbrRows,
                         "Plan upgrade within 6 months")>>)
    \o
    (IF "summary_old_vm" \in failed THEN <<>>
     ELSE <<SummaryTuple("Older VM Generations (Below Threshold)", OldVmSummaryRows,
                         "Upgrade VMs to recommended generation")>>)
    \o
    (IF "summary_oversized_driver" \in failed THEN <<>>
     ELSE <<SummaryTuple("Oversized Driver Nodes", OversizedJoined,
                         "Right-size driver configurations")>>)

(* The queries of the executive summary that raise: those the environment  *)
(* fails and, while the view is not registered, the two that join it.       *)
FailedExecutiveQueries ==
    (failing \cap ExecutiveQueries)
    \cup (IF ViewMissing THEN {"critical_dbr", "warning_dbr"} ELSE {})

(* The note printed by the except branch of each query, in attempt order.   *)
ExecutiveNotes(failed) ==
    (IF "critical_dbr" \in failed THEN <<"Note: Could not query DBR versions">> ELSE <<>>)
    \o (IF "warning_dbr" \in failed THEN <<"Note: Could not query DBR versions">> ELSE <<>>)
    \o (IF "summary_old_vm" \in failed
        THEN <<"Note: Could not query VM generations">> ELSE <<>>)
    \o (IF "summary_oversized_driver" \in failed
        THEN <<"Note: Could not query driver sizes">> ELSE <<>>)

UnableToGenerate ==
    "Unable to generate summary - please check system table access permissions"

(* Mutation of RunExecutiveSummary: the first exception ends the assembly   *)
(* (one try block around the four queries).                                 *)
RunExecutiveSummaryOneTry ==
    /\ pc = "executive_summary"
    /\ LET failed == FailedExecutiveQueries
           after  == IF "critical_dbr" \in failed THEN ExecutiveQueries
                     ELSE IF "warning_dbr" \in failed
                          THEN ExecutiveQueries \ {"critical_dbr"}
                     ELSE IF "summary_old_vm" \in failed
                          THEN {"summary_old_vm", "summary_oversized_driver"}
                     ELSE failed
           data   == SummaryData(after)
       IN  /\ summary_data' = data
           /\ summary_df' = IF data # <<>> THEN Some(data) ELSE Null
           /\ printed' = printed \o ExecutiveNotes(failed)
                             \o (IF data # <<>> THEN <<>> ELSE <<UnableToGenerate>>)
    /\ pc' = NextCell("executive_summary")
    /\ UNCHANGED <<inputs, result, output_tables, workspace_options,
                   dbr_lts_support_view, reference_table,
                   configuration_summary, first_run>>

(* Cell: build summary_data; display it when it is not empty, else print    *)
(* that no summary could be generated.                                      *)
RunExecutiveSummary ==
    /\ pc = "executive_summary"
    /\ LET failed == FailedExecutiveQueries
           data   == SummaryData(failed)
       IN  /\ summary_data' = data
           /\ summary_df' = IF data # <<>> THEN Some(data) ELSE Null
           /\ printed' = printed \o ExecutiveNotes(failed)
                             \o (IF data # <<>> THEN <<>> ELSE <<UnableToGenerate>>)
    /\ pc' = NextCell("executive_summary")
    /\ UNCHANGED <<inputs, result, output_tables, workspace_options,
                   dbr_lts_support_view, reference_table,
                   configuration_summary, first_run>>

----------------------------------------------------------------------------
(* Resource utilization summary (Resource_Utilization_Analysis).  Metrics   *)
(* are whole percents; an average is kept as the pair (sum, count) of its   *)
(* non-NULL inputs and is NULL when there are none.                         *)

(* WHERE nt.start_time >= date_sub(current_date(), N) AND nt.driver = false *)
WorkerTimeline ==
    {nt \in node_timeline : nt.start_time >= WindowStart /\ ~nt.driver}

RECURSIVE SumValues(_, _)
SumValues(f, S) ==
    IF S = {} THEN 0
    ELSE LET x == CHOOSE y \in S : TRUE
         IN  Val(f[x]) + SumValues(f, S \ {x})

(* AVG(expr) over the rows T, expr given as a function on T with nullable   *)
(* values.                                                                  *)
Avg(f, T) ==
    LET present == {x \in T : ~IsNull(f[x])}
    IN  IF present = {} THEN Null
        ELSE Some([sum |-> SumValues(f, present), count |-> Cardinality(present)])

(* avg >= k, false when the average is NULL. *)
AvgAtLeast(avg, k) == ~IsNull(avg) /\ Val(avg).sum >= k * Val(avg).count

(* a + b, NULL when either side is NULL. *)
NullableSum(a, b) == IF IsNull(a) \/ IsNull(b) THEN Null ELSE Some(Val(a) + Val(b))

(* cluster_stats: one row per cluster_id present in the worker timeline. *)
ClusterStats(cid) ==
    LET T == {nt \in WorkerTimeline : nt.cluster_id = cid}
    IN  IF T = {} THEN Null
        ELSE Some([
            avg_cpu_percent |->
                Avg([x \in T |-> NullableSum(x.cpu_user_percent, x.cpu_system_percent)], T),
            avg_io_wait_percent |-> Avg([x \in T |-> x.cpu_wait_percent], T),
            avg_memory_percent  |-> Avg([x \in T |-> x.memory_used_percent], T),
            avg_swap_percent    |-> Avg([x \in T |-> x.swap_used_percent], T)])

(* Mutation of BottleneckType: the I/O arm tested before the memory arm.    *)
BottleneckTypeIoFirst(cs) ==
    IF AvgAtLeast(cs.avg_io_wait_percent, 20) THEN "I/O-bound"
    ELSE IF AvgAtLeast(cs.avg_swap_percent, 5) \/ AvgAtLeast(cs.avg_memory_percent, 80)
         THEN "Memory-bound"
    ELSE IF AvgAtLeast(cs.avg_cpu_percent, 50) THEN "CPU-bound"
    ELSE "Balanced/Underutilized"

(* CASE ... END AS bottleneck_type *)
BottleneckType(cs) ==
    IF AvgAtLeast(cs.avg_swap_percent, 5) \/ AvgAtLeast(cs.avg_memory_percent, 80)
    THEN "Memory-bound"
    ELSE IF AvgAtLeast(cs.avg_io_wait_percent, 20) THEN "I/O-bound"
    ELSE IF AvgAtLeast(cs.avg_cpu_percent, 50) THEN "CPU-bound"
    ELSE "Balanced/Underutilized"

(* categorized: clusters c JOIN cluster_stats cs LEFT JOIN cluster_costs cc *)
(* WHERE active.                                                            *)
Categorized ==
    {[c |-> c,
      bottleneck_type |-> BottleneckType(Val(ClusterStats(c.cluster_id)))]
        : c \in {x \in ActiveClusters : ~IsNull(ClusterStats(x.cluster_id))}}

(* CASE WHEN bottleneck_type = ... END AS recommendation *)
BottleneckRecommendation(bottleneck_type) ==
    IF bottleneck_type = "CPU-bound"
    THEN "Enable Photon, compute-optimized (F-series), larger nodes, or more workers"
    ELSE IF bottleneck_type = "I/O-bound"
    THEN "Enable Delta Cache, Liquid Clustering, storage-optimized (L-series)"
    ELSE IF bottleneck_type = "Memory-bound"
    THEN "Memory-optimized (E-series), larger nodes, or more workers"
    ELSE "No immediate action needed"

(* SELECT ... FROM categorized GROUP BY bottleneck_type *)
ResourceSummaryRow(all, t) ==
    LET G == {x \in all : x.bottleneck_type = t}
    IN  [bottleneck_type |-> t,
         recommendation  |-> BottleneckRecommendation(t),
         cluster_count   |-> Cardinality(G),
         total_cost_usd  |-> Round2(SumClusterCost(G)),
         pct_of_total_cost |->
             PctOfTotal(SumClusterCost(G), SumClusterCost(all))]

(* ORDER BY total_cost_usd DESC *)
ResourceSummaryResults ==
    LET all   == Categorized
        types == {x.bottleneck_type : x \in all}
        row   == [t \in types |-> ResourceSummaryRow(all, t)]
    IN  {[i \in 1..Len(p) |-> row[p[i]]] : p \in
            {q \in Perms(types) :
                \A i, j \in 1..Len(q) :
                    i < j => row[q[i]].total_cost_usd >= row[q[j]].total_cost_usd}}

(* Mutation of RunResourceSummary: the cell without its try/except. *)
RunResourceSummaryUnguarded ==
    /\ pc = "resource_summary"
    /\ IF "resource_summary" \in failing
       THEN /\ pc' = AfterAbort("resource_summary")
            /\ UNCHANGED result
       ELSE /\ \E r \in ResourceSummaryResults :
                  result' = [result EXCEPT !["resource_summary"] = Some(r)]
            /\ pc' = NextCell("resource_summary")
    /\ UNCHANGED <<inputs, summary_data, output_tables, workspace_options, session>>

(* Cell: try: display(spark.sql(resource_summary_query)); a query that      *)
(* raises is reported and nothing is displayed.                             *)
RunResourceSummary ==
    /\ pc = "resource_summary"
    /\ IF "resource_summary" \in failing
       THEN UNCHANGED result
       ELSE \E r \in ResourceSummaryResults :
               result' = [result EXCEPT !["resource_summary"] = Some(r)]
    /\ pc' = NextCell("resource_summary")
    /\ UNCHANGED <<inputs, summary_data, output_tables, workspace_options, session>>

----------------------------------------------------------------------------
(* Section 5: Photon adoption.  The adoption overview, the cost-based       *)
(* candidate list and the candidate summary appear in both notebooks.       *)

(* LOWER(c.dbr_version) LIKE '%photon%' / '%ml%' / '%gpu%' *)
IsPhoton(c) == LikeContains(Lower(c.dbr_version), <<"p", "h", "o", "t", "o", "n">>)
IsMl(c) == LikeContains(Lower(c.dbr_version), <<"m", "l">>)
IsGpu(c) == LikeContains(Lower(c.dbr_version), <<"g", "p", "u">>)

(* CASE ... END AS runtime_type *)
RuntimeType(c) ==
    IF IsMl(c) THEN "ML Runtime"
    ELSE IF IsGpu(c) THEN "GPU Runtime"
    ELSE "Standard Runtime"

(* SUM(COALESCE(cc.total_dbus, 0)) and SUM(COALESCE(cc.total_cost_usd, 0))  *)
(* over cluster records C, cc being the cluster_costs with rounded sums.    *)
RECURSIVE SumRoundedDbus(_)
SumRoundedDbus(C) ==
    IF C = {} THEN 0
    ELSE LET c == CHOOSE x \in C : TRUE
             cc == ClusterCostsRounded(c.cluster_id)
         IN  (IF IsNull(cc) THEN 0 ELSE Val(cc).total_dbus) + SumRoundedDbus(C \ {c})

RECURSIVE SumRoundedCost(_)
SumRoundedCost(C) ==
    IF C = {} THEN 0
    ELSE LET c == CHOOSE x \in C : TRUE
             cc == ClusterCostsRounded(c.cluster_id)
         IN  (IF IsNull(cc) THEN 0 ELSE Val(cc).total_cost_usd)
             + SumRoundedCost(C \ {c})

(* CASE WHEN LOWER(c.dbr_version) LIKE '%photon%' ... END AS photon_status *)
PhotonStatus(c) == IF IsPhoton(c) THEN "Photon Enabled" ELSE "Standard (No Photon)"

(* SELECT ... GROUP BY photon_status of the adoption overview. *)
PhotonAdoptionRow(all, status) ==
    LET G == {c \in all : PhotonStatus(c) = status}
        Ids(C) == {c.cluster_id : c \in C}
        counts == [t \in {PhotonStatus(c) : c \in all} |->
                      Cardinality(Ids({c \in all : PhotonStatus(c) = t}))]
        SumCounts[T \in SUBSET DOMAIN counts] ==
            IF T = {} THEN 0
            ELSE LET t == CHOOSE x \in T : TRUE IN counts[t] + SumCounts[T \ {t}]
    IN  [photon_status   |-> status,
         cluster_count   |-> Cardinality(Ids(G)),
         pct_of_clusters |-> PctOfTotal(Cardinality(Ids(G)), SumCounts[DOMAIN counts]),
         total_dbus      |-> SumRoundedDbus(G),
         total_cost_usd  |-> SumRoundedCost(G),
         pct_of_total_cost |-> PctOfTotal(SumRoundedCost(G), SumRoundedCost(all))]

(* ORDER BY cluster_count DESC *)
PhotonAdoptionResults ==
    LET all  == ActiveClusters
        keys == {PhotonStatus(c) : c \in all}
        row  == [k \in keys |-> PhotonAdoptionRow(all, k)]
    IN  {[i \in 1..Len(p) |-> row[p[i]]] : p \in
            {q \in Perms(keys) :
                \A i, j \in 1..Len(q) :
                    i < j => row[q[i]].cluster_count >= row[q[j]].cluster_count}}

(* Cell: display(spark.sql(photon_adoption_query)) *)
RunPhotonAdoption ==
    /\ pc = "photon_adoption"
    /\ IF "photon_adoption" \in failing
       THEN /\ pc' = AfterAbort("photon_adoption")
            /\ UNCHANGED result
       ELSE /\ \E r \in PhotonAdoptionResults :
                  result' = [result EXCEPT !["photon_adoption"] = Some(r)]
            /\ pc' = NextCell("photon_adoption")
    /\ UNCHANGED <<inputs, summary_data, output_tables, workspace_options, session>>

(* Cell of Resource_Utilization_Analysis: the same query. *)
RunRuPhotonAdoption ==
    /\ pc = "ru_photon_adoption"
    /\ IF "ru_photon_adoption" \in failing
       THEN /\ pc' = AfterAbort("ru_photon_adoption")
            /\ UNCHANGED result
       ELSE /\ \E r \in PhotonAdoptionResults :
                  result' = [result EXCEPT !["ru_photon_adoption"] = Some(r)]
            /\ pc' = NextCell("ru_photon_adoption")
    /\ UNCHANGED <<inputs, summary_data, output_tables, workspace_options, session>>

(* ---- Cost-based Photon candidates ---- *)

(* WHERE ... AND LOWER(c.dbr_version) NOT LIKE '%photon%' *)
NonPhotonClusters == {c \in ActiveClusters : ~IsPhoton(c)}

(* COALESCE(cc.total_cost_usd, 0), in hundredths of a dollar. *)
CoalescedCost(c) ==
    LET cc == ClusterCostsRounded(c.cluster_id)
    IN  IF IsNull(cc) THEN 0 ELSE Val(cc).total_cost_usd

(* CASE ... END AS photon_recommendation, Cluster_Optimization_Analysis. *)
PhotonRecommendation(c) ==
    IF IsMl(c) THEN "ML workloads may not benefit"
    ELSE IF IsGpu(c) THEN "GPU workloads - evaluate carefully"
    ELSE IF CoalescedCost(c) > 1000 * 100 THEN "High Priority - High spend cluster"
    ELSE IF CoalescedCost(c) > 100 * 100 THEN "Medium Priority"
    ELSE "Low Priority - Low spend"

(* CASE ... END AS photon_recommendation, Resource_Utilization_Analysis. *)
RuPhotonRecommendation(c) ==
    IF IsMl(c) /\ CoalescedCost(c) > 500 * 100
    THEN "ML Runtime - Photon helps Spark SQL/feature engineering"
    ELSE IF IsMl(c) THEN "ML Runtime - Evaluate if using Spark SQL/DataFrames"
    ELSE IF IsGpu(c) THEN "GPU workloads - evaluate carefully"
    ELSE IF CoalescedCost(c) > 1000 * 100 THEN "High Priority - High spend cluster"
    ELSE IF CoalescedCost(c) > 100 * 100 THEN "Medium Priority"
    ELSE "Low Priority - Low spend"

(* The SELECT list of photon_candidates_query. *)
PhotonCandidateRow(c, recommendation) ==
    LET cc == ClusterCostsRounded(c.cluster_id)
    IN  [cluster_id     |-> c.cluster_id,
         workspace_id   |-> c.workspace_id,
         dbr_version    |-> c.dbr_version,
         runtime_type   |-> RuntimeType(c),
         total_dbus     |-> IF IsNull(cc) THEN 0 ELSE Val(cc).total_dbus,
         total_cost_usd |-> CoalescedCost(c),
         photon_recommendation |-> recommendation,
         order_rank     |-> IF IsMl(c) THEN 3 ELSE IF IsGpu(c) THEN 2 ELSE 1,
         order_cost     |-> IF IsNull(cc) THEN Null
                            ELSE Some(Val(cc).total_cost_usd)]

(* ORDER BY CASE ... END, cc.total_cost_usd DESC NULLS LAST *)
PhotonCandidateBefore(a, b) ==
    \/ a.order_rank < b.order_rank
    \/ a.order_rank = b.order_rank /\ DescNullsLastBefore(a.order_cost, b.order_cost)

PhotonCandidatesOrdered(row) ==
    {[i \in 1..Len(p) |-> row[p[i]]] : p \in
        {q \in Perms(DOMAIN row) :
            \A i, j \in 1..Len(q) :
                i < j => ~PhotonCandidateBefore(row[q[j]], row[q[i]])}}

PhotonCandidatesResults ==
    PhotonCandidatesOrdered(
        [c \in NonPhotonClusters |-> PhotonCandidateRow(c, PhotonRecommendation(c))])

RuPhotonCandidatesResults ==
    PhotonCandidatesOrdered(
        [c \in NonPhotonClusters |-> PhotonCandidateRow(c, RuPhotonRecommendation(c))])

(* Cell: display(spark.sql(photon_candidates_query)) *)
RunPhotonCandidates ==
    /\ pc = "photon_candidates"
    /\ IF "photon_candidates" \in failing
       THEN /\ pc' = AfterAbort("photon_candidates")
            /\ UNCHANGED result
       ELSE /\ \E r \in PhotonCandidatesResults :
                  result' = [result EXCEPT !["photon_candidates"] = Some(r)]
            /\ pc' = NextCell("photon_candidates")
    /\ UNCHANGED <<inputs, summary_data, output_tables, workspace_options, session>>

(* Cell of Resource_Utilization_Analysis. *)
RunRuPhotonCandidates ==
    /\ pc = "ru_photon_candidates"
    /\ IF "ru_photon_candidates" \in failing
       THEN /\ pc' = AfterAbort("ru_photon_candidates")
            /\ UNCHANGED result
       ELSE /\ \E r \in RuPhotonCandidatesResults :
                  result' = [result EXCEPT !["ru_photon_candidates"] = Some(r)]
            /\ pc' = NextCell("ru_photon_candidates")
    /\ UNCHANGED <<inputs, summary_data, output_tables, workspace_options, session>>

(* ---- Photon candidates summary by runtime type ---- *)

(* CASE ... END AS photon_suitability, Cluster_Optimization_Analysis. *)
PhotonSuitability(c) ==
    IF IsMl(c) THEN "Evaluate - ML libraries not accelerated"
    ELSE IF IsGpu(c) THEN "Evaluate - GPU workloads vary"
    ELSE "Good Candidate for Photon"

(* CASE ... END AS photon_suitability in the SELECT list of                 *)
(* Resource_Utilization_Analysis; the GROUP BY list of that query repeats   *)
(* the wording of PhotonSuitability for ML runtimes.  Both give one value   *)
(* per runtime type, so the groups are those of the runtime type.           *)
RuPhotonSuitability(c) ==
    IF IsMl(c) THEN "Evaluate - Photon helps Spark SQL/feature eng, not sklearn/torch"
    ELSE IF IsGpu(c) THEN "Evaluate - GPU workloads vary"
    ELSE "Good Candidate for Photon"

(* SELECT ... GROUP BY runtime_type, photon_suitability *)
PhotonSummaryRow(all, k) ==
    LET G == {c \in all : RuntimeType(c) = k[1]}
        W(C) == {[c |-> c] : c \in C}
    IN  [runtime_type       |-> k[1],
         photon_suitability |-> k[2],
         cluster_count      |-> Cardinality({c.cluster_id : c \in G}),
         total_dbus         |-> Round2(SumClusterDbus(W(G))),
         total_cost_usd     |-> Round2(SumClusterCost(W(G))),
         pct_of_non_photon_cost |->
             PctOfTotal(SumClusterCost(W(G)), SumClusterCost(W(all)))]

(* ORDER BY total_cost_usd DESC *)
PhotonSummaryOrdered(all, keys) ==
    LET row == [k \in keys |-> PhotonSummaryRow(all, k)]
    IN  {[i \in 1..Len(p) |-> row[p[i]]] : p \in
            {q \in Perms(keys) :
                \A i, j \in 1..Len(q) :
                    i < j => row[q[i]].total_cost_usd >= row[q[j]].total_cost_usd}}

PhotonSummaryResults ==
    PhotonSummaryOrdered(NonPhotonClusters,
        {<<RuntimeType(c), PhotonSuitability(c)>> : c \in NonPhotonClusters})

RuPhotonSummaryResults ==
    PhotonSummaryOrdered(NonPhotonClusters,
        {<<RuntimeType(c), RuPhotonSuitability(c)>> : c \in NonPhotonClusters})

(* Cell: display(spark.sql(photon_summary_query)), the last cell of         *)
(* Cluster_Optimization_Analysis.                                           *)
RunPhotonSummary ==
    /\ pc = "photon_summary"
    /\ IF "photon_summary" \in failing
       THEN /\ pc' = AfterAbort("photon_summary")
            /\ UNCHANGED result
       ELSE /\ \E r \in PhotonSummaryResults :
                  result' = [result EXCEPT !["photon_summary"] = Some(r)]
            /\ pc' = NextCell("photon_summary")
    /\ UNCHANGED <<inputs, summary_data, output_tables, workspace_options, session>>

(* Cell: the last cell of Resource_Utilization_Analysis. *)
RunRuPhotonSummary ==
    /\ pc = "ru_photon_summary"
    /\ IF "ru_photon_summary" \in failing
       THEN /\ pc' = AfterAbort("ru_photon_summary")
            /\ UNCHANGED result
       ELSE /\ \E r \in RuPhotonSummaryResults :
                  result' = [result EXCEPT !["ru_photon_summary"] = Some(r)]
            /\ pc' = NextCell("ru_photon_summary")
    /\ UNCHANGED <<inputs, summary_data, output_tables, workspace_options, session>>

----------------------------------------------------------------------------
(* Resource_Utilization_Analysis: clusters with high I/O wait and with      *)
(* high memory use.                                                         *)

(* ROUND(AVG(expr), 2) of non-negative values, in hundredths, HALF_UP;      *)
(* NULL when the average is NULL.                                           *)
RoundAvg2(avg) ==
    IF IsNull(avg) THEN Null
    ELSE Some((2 * 100 * Val(avg).sum + Val(avg).count) \div (2 * Val(avg).count))

(* MAX(expr) over the rows T, NULL when no row has a value. *)
MaxValue(f, T) ==
    LET present == {x \in T : ~IsNull(f[x])}
    IN  IF present = {} THEN Null
        ELSE Some(CHOOSE v \in {Val(f[x]) : x \in present} :
                      \A x \in present : Val(f[x]) <= v)

(* rounded >= k for a rounded average in hundredths, false when NULL. *)
RoundedAtLeast(rounded, k) == ~IsNull(rounded) /\ Val(rounded) >= k * 100

(* cluster_io_stats: GROUP BY nt.cluster_id HAVING AVG(nt.cpu_wait_percent) *)
(* >= 10, over the worker samples of the window.                            *)
ClusterIoStats(cid) ==
    LET T == {nt \in WorkerTimeline : nt.cluster_id = cid}
        wait == [x \in T |-> x.cpu_wait_percent]
    IN  IF T = {} \/ ~AvgAtLeast(Avg(wait, T), 10) THEN Null
        ELSE Some([
            avg_io_wait_percent |-> RoundAvg2(Avg(wait, T)),
            max_io_wait_percent |-> MaxValue(wait, T),
            avg_cpu_percent |->
                RoundAvg2(Avg([x \in T |->
                    NullableSum(x.cpu_user_percent, x.cpu_system_percent)], T))])

(* The SELECT list of high_io_wait_query. *)
HighIoWaitRow(c) ==
    LET io == Val(ClusterIoStats(c.cluster_id))
        cc == ClusterCostsRounded(c.cluster_id)
    IN  [cluster_id          |-> c.cluster_id,
         workspace_id        |-> c.workspace_id,
         dbr_version         |-> c.dbr_version,
         avg_io_wait_percent |-> io.avg_io_wait_percent,
         max_io_wait_percent |-> io.max_io_wait_percent,
         avg_cpu_percent     |-> io.avg_cpu_percent,
         total_dbus          |-> IF IsNull(cc) THEN 0 ELSE Val(cc).total_dbus,
         total_cost_usd      |-> CoalescedCost(c),
         recommendation      |->
             IF RoundedAtLeast(io.avg_io_wait_percent, 30)
             THEN "HIGH I/O WAIT - Enable Delta Cache + Liquid Clustering"
             ELSE IF RoundedAtLeast(io.avg_io_wait_percent, 20)
             THEN "MEDIUM I/O WAIT - Consider Delta Cache, storage-optimized nodes"
             ELSE "MODERATE I/O WAIT - Review data layout, consider Liquid Clustering",
         order_cost          |-> IF IsNull(cc) THEN Null
                                 ELSE Some(Val(cc).total_cost_usd)]

(* ORDER BY io.avg_io_wait_percent DESC, cc.total_cost_usd DESC NULLS LAST *)
HighIoWaitBefore(a, b) ==
    \/ DescNullsLastBefore(a.avg_io_wait_percent, b.avg_io_wait_percent)
    \/ /\ a.avg_io_wait_percent = b.avg_io_wait_percent
       /\ DescNullsLastBefore(a.order_cost, b.order_cost)

(* clusters c JOIN cluster_io_stats io LEFT JOIN cluster_costs cc WHERE     *)
(* active.                                                                  *)
HighIoWaitResults ==
    LET joined == {c \in ActiveClusters : ~IsNull(ClusterIoStats(c.cluster_id))}
        row == [c \in joined |-> HighIoWaitRow(c)]
    IN  {[i \in 1..Len(p) |-> row[p[i]]] : p \in
            {q \in Perms(joined) :
                \A i, j \in 1..Len(q) :
                    i < j => ~HighIoWaitBefore(row[q[j]], row[q[i]])}}

(* Cell: try: display(spark.sql(high_io_wait_query)) except: print(...) *)
RunHighIoWait ==
    /\ pc = "high_io_wait"
    /\ IF "high_io_wait" \in failing
       THEN UNCHANGED result
       ELSE \E r \in HighIoWaitResults :
               result' = [result EXCEPT !["high_io_wait"] = Some(r)]
    /\ pc' = NextCell("high_io_wait")
    /\ UNCHANGED <<inputs, summary_data, output_tables, workspace_options, session>>

(* cluster_memory_stats: GROUP BY nt.cluster_id HAVING                      *)
(* AVG(nt.memory_used_percent) >= 70 OR AVG(nt.swap_used_percent) >= 5.     *)
ClusterMemoryStats(cid) ==
    LET T == {nt \in WorkerTimeline : nt.cluster_id = cid}
        memory == [x \in T |-> x.memory_used_percent]
        swap   == [x \in T |-> x.swap_used_percent]
    IN  IF T = {} \/ ~(AvgAtLeast(Avg(memory, T), 70) \/ AvgAtLeast(Avg(swap, T), 5))
        THEN Null
        ELSE Some([avg_memory_percent |-> RoundAvg2(Avg(memory, T)),
                   max_memory_percent |-> MaxValue(memory, T),
                   avg_swap_percent   |-> RoundAvg2(Avg(swap, T)),
                   max_swap_percent   |-> MaxValue(swap, T)])

(* The SELECT list of high_memory_query. *)
HighMemoryRow(c) ==
    LET mem == Val(ClusterMemoryStats(c.cluster_id))
        cc  == ClusterCostsRounded(c.cluster_id)
    IN  [cluster_id         |-> c.cluster_id,
         workspace_id       |-> c.workspace_id,
         dbr_version        |-> c.dbr_version,
         avg_memory_percent |-> mem.avg_memory_percent,
         max_memory_percent |-> mem.max_memory_percent,
         avg_swap_percent   |-> mem.avg_swap_percent,
         max_swap_percent   |-> mem.max_swap_percent,
         total_dbus         |-> IF IsNull(cc) THEN 0 ELSE Val(cc).total_dbus,
         total_cost_usd     |-> CoalescedCost(c),
         recommendation     |->
             IF RoundedAtLeast(mem.avg_swap_percent, 10)
             THEN "CRITICAL - Use memory-optimized (E-series), larger nodes, or more workers"
             ELSE IF RoundedAtLeast(mem.avg_swap_percent, 5)
             THEN "SWAPPING - Use memory-optimized (E-series), larger nodes, or more workers"
             ELSE IF RoundedAtLeast(mem.avg_memory_percent, 90)
             THEN "HIGH MEMORY - Use memory-optimized (E-series), larger nodes, or more workers"
             ELSE IF RoundedAtLeast(mem.avg_memory_percent, 80)
             THEN "ELEVATED - Consider memory-optimized (E-series), larger nodes, or more workers"
             ELSE "MODERATE - Monitor for memory pressure",
         order_cost         |-> IF IsNull(cc) THEN Null
                                ELSE Some(Val(cc).total_cost_usd)]

(* ORDER BY mem.avg_swap_percent DESC, mem.avg_memory_percent DESC,         *)
(*          cc.total_cost_usd DESC NULLS LAST                               *)
HighMemoryBefore(a, b) ==
    \/ DescNullsLastBefore(a.avg_swap_percent, b.avg_swap_percent)
    \/ /\ a.avg_swap_percent = b.avg_swap_percent
       /\ \/ DescNullsLastBefore(a.avg_memory_percent, b.avg_memory_percent)
          \/ /\ a.avg_memory_percent = b.avg_memory_percent
             /\ DescNullsLastBefore(a.order_cost, b.order_cost)

HighMemoryResults ==
    LET joined == {c \in ActiveClusters : ~IsNull(ClusterMemoryStats(c.cluster_id))}
        row == [c \in joined |-> HighMemoryRow(c)]
    IN  {[i \in 1..Len(p) |-> row[p[i]]] : p \in
            {q \in Perms(joined) :
                \A i, j \in 1..Len(q) :
                    i < j => ~HighMemoryBefore(row[q[j]], row[q[i]])}}

(* Cell: try: display(spark.sql(high_memory_query)) except: print(...) *)
RunHighMemory ==
    /\ pc = "high_memory"
    /\ IF "high_memory" \in failing
       THEN UNCHANGED result
       ELSE \E r \in HighMemoryResults :
               result' = [result EXCEPT !["high_memory"] = Some(r)]
    /\ pc' = NextCell("high_memory")
    /\ UNCHANGED <<inputs, summary_data, output_tables, workspace_options, session>>

----------------------------------------------------------------------------
(* CPU-based Photon candidates and the CPU utilization summary, in both     *)
(* notebooks.  Resource_Utilization_Analysis reads only the worker samples  *)
(* (nt.driver = false); Cluster_Optimization_Analysis reads every sample.   *)

(* FROM system.compute.node_timeline nt WHERE nt.start_time >= date_sub(..) *)
WindowTimeline == {nt \in node_timeline : nt.start_time >= WindowStart}

(* cluster_cpu_stats of high_cpu_photon_query over the samples timeline. *)
ClusterCpuStats(timeline, cid) ==
    LET T == {nt \in timeline : nt.cluster_id = cid}
        cpu == [x \in T |-> NullableSum(x.cpu_user_percent, x.cpu_system_percent)]
    IN  IF T = {} THEN Null
        ELSE Some([avg_cpu_percent |-> RoundAvg2(Avg(cpu, T)),
                   max_cpu_percent |-> MaxValue(cpu, T),
                   days_active     |-> Cardinality({x.start_time : x \in T}),
                   avg_cpu         |-> Avg(cpu, T)])

(* CASE ... END AS photon_priority, Cluster_Optimization_Analysis. *)
PhotonPriority(c, cpu) ==
    IF IsMl(c) THEN "ML Runtime - evaluate carefully"
    ELSE IF RoundedAtLeast(cpu.avg_cpu_percent, 70) THEN "HIGH PRIORITY - Very CPU-bound"
    ELSE IF RoundedAtLeast(cpu.avg_cpu_percent, 50) THEN "GOOD CANDIDATE - CPU-bound"
    ELSE IF RoundedAtLeast(cpu.avg_cpu_percent, 30) THEN "MODERATE - Some CPU usage"
    ELSE "LOW PRIORITY - Not CPU-bound"

(* CASE ... END AS recommendation, Resource_Utilization_Analysis. *)
HighCpuRecommendation(c, cpu) ==
    IF IsMl(c) /\ RoundedAtLeast(cpu.avg_cpu_percent, 50)
    THEN "ML Runtime - Photon helps Spark SQL/feature eng; or use compute-optimized (F-series)"
    ELSE IF IsMl(c) THEN "ML Runtime - Evaluate if using Spark SQL/DataFrames"
    ELSE IF RoundedAtLeast(cpu.avg_cpu_percent, 70)
    THEN "HIGH - Enable Photon, compute-optimized (F-series), larger nodes, or more workers"
    ELSE IF RoundedAtLeast(cpu.avg_cpu_percent, 50)
    THEN "GOOD - Enable Photon, compute-optimized (F-series), larger nodes, or more workers"
    ELSE IF RoundedAtLeast(cpu.avg_cpu_percent, 30)
    THEN "MODERATE - Consider Photon for SQL workloads"
    ELSE "LOW - Not CPU-bound (I/O, memory, or idle)"

(* The SELECT list of high_cpu_photon_query; the last CASE column is named  *)
(* photon_priority in one notebook and recommendation in the other.         *)
HighCpuPhotonRow(c, cpu, advice) ==
    LET cc == ClusterCostsRounded(c.cluster_id)
    IN  [cluster_id      |-> c.cluster_id,
         workspace_id    |-> c.workspace_id,
         dbr_version     |-> c.dbr_version,
         runtime_type    |-> RuntimeType(c),
         avg_cpu_percent |-> cpu.avg_cpu_percent,
         max_cpu_percent |-> cpu.max_cpu_percent,
         days_active     |-> cpu.days_active,
         total_dbus      |-> IF IsNull(cc) THEN 0 ELSE Val(cc).total_dbus,
         total_cost_usd  |-> CoalescedCost(c),
         recommendation  |-> advice,
         order_cost      |-> IF IsNull(cc) THEN Null
                             ELSE Some(Val(cc).total_cost_usd)]

(* ORDER BY cpu.avg_cpu_percent DESC, cc.total_cost_usd DESC NULLS LAST *)
HighCpuPhotonBefore(a, b) ==
    \/ DescNullsLastBefore(a.avg_cpu_percent, b.avg_cpu_percent)
    \/ /\ a.avg_cpu_percent = b.avg_cpu_percent
       /\ DescNullsLastBefore(a.order_cost, b.order_cost)

(* clusters c JOIN cluster_cpu_stats cpu ... WHERE active AND               *)
(* LOWER(c.dbr_version) NOT LIKE '%photon%' AND cpu.avg_cpu_percent >= 30   *)
HighCpuJoined(timeline) ==
    {c \in NonPhotonClusters :
        /\ ~IsNull(ClusterCpuStats(timeline, c.cluster_id))
        /\ RoundedAtLeast(Val(ClusterCpuStats(timeline, c.cluster_id)).avg_cpu_percent, 30)}

HighCpuOrdered(row) ==
    {[i \in 1..Len(p) |-> row[p[i]]] : p \in
        {q \in Perms(DOMAIN row) :
            \A i, j \in 1..Len(q) :
                i < j => ~HighCpuPhotonBefore(row[q[j]], row[q[i]])}}

HighCpuPhotonResults ==
    HighCpuOrdered(
        [c \in HighCpuJoined(WindowTimeline) |->
            LET cpu == Val(ClusterCpuStats(WindowTimeline, c.cluster_id))
            IN  HighCpuPhotonRow(c, cpu, PhotonPriority(c, cpu))])

RuHighCpuPhotonResults ==
    HighCpuOrdered(
        [c \in HighCpuJoined(WorkerTimeline) |->
            LET cpu == Val(ClusterCpuStats(WorkerTimeline, c.cluster_id))
            IN  HighCpuPhotonRow(c, cpu, HighCpuRecommendation(c, cpu))])

(* Cell: try: display(spark.sql(high_cpu_photon_query)) except: print(...)  *)
(* in Cluster_Optimization_Analysis.                                        *)
RunHighCpuPhoton ==
    /\ pc = "high_cpu_photon"
    /\ IF "high_cpu_photon" \in failing
       THEN UNCHANGED result
       ELSE \E r \in HighCpuPhotonResults :
               result' = [result EXCEPT !["high_cpu_photon"] = Some(r)]
    /\ pc' = NextCell("high_cpu_photon")
    /\ UNCHANGED <<inputs, summary_data, output_tables, workspace_options, session>>

(* The same cell in Resource_Utilization_Analysis. *)
RunRuHighCpuPhoton ==
    /\ pc = "ru_high_cpu_photon"
    /\ IF "ru_high_cpu_photon" \in failing
       THEN UNCHANGED result
       ELSE \E r \in RuHighCpuPhotonResults :
               result' = [result EXCEPT !["ru_high_cpu_photon"] = Some(r)]
    /\ pc' = NextCell("ru_high_cpu_photon")
    /\ UNCHANGED <<inputs, summary_data, output_tables, workspace_options, session>>

(* ---- CPU utilization summary ---- *)

(* CASE ... END AS cpu_utilization_band, on the unrounded average; the      *)
(* ORDER BY CASE gives the bands the ranks 1..4 in this order.              *)
CpuBands ==
    <<"High CPU (>=70%)", "Medium-High CPU (50-70%)", "Medium CPU (30-50%)",
      "Low CPU (<30%)">>

CpuBandRank(avg) ==
    IF AvgAtLeast(avg, 70) THEN 1
    ELSE IF AvgAtLeast(avg, 50) THEN 2
    ELSE IF AvgAtLeast(avg, 30) THEN 3
    ELSE 4

(* CASE ... END AS photon_suitability of the CPU summary, by band rank. *)
CpuPhotonSuitability(rank, low) ==
    IF rank <= 2 THEN "Good Photon Candidate"
    ELSE IF rank = 3 THEN "Evaluate for Photon"
    ELSE low

(* WHERE ... AND LOWER(c.dbr_version) NOT LIKE '%photon%'                   *)
(*           AND LOWER(c.dbr_version) NOT LIKE '%ml%'                       *)
(* of cpu_summary_query in Cluster_Optimization_Analysis.                   *)
CpuSummaryClusters ==
    {c \in NonPhotonClusters :
        /\ ~IsMl(c)
        /\ ~IsNull(ClusterCpuStats(WindowTimeline, c.cluster_id))}

(* Mutation of CpuSummaryClusters: without the ML exclusion. *)
CpuSummaryClustersWithMl ==
    {c \in NonPhotonClusters : ~IsNull(ClusterCpuStats(WindowTimeline, c.cluster_id))}

(* WHERE ... AND LOWER(c.dbr_version) NOT LIKE '%photon%' of                *)
(* cpu_summary_query in Resource_Utilization_Analysis.                      *)
RuCpuSummaryClusters ==
    {c \in NonPhotonClusters : ~IsNull(ClusterCpuStats(WorkerTimeline, c.cluster_id))}

(* SELECT ... GROUP BY cpu_utilization_band, photon_suitability *)
CpuSummaryRow(timeline, all, rank, low) ==
    LET G == {c \in all :
                 CpuBandRank(Val(ClusterCpuStats(timeline, c.cluster_id)).avg_cpu) = rank}
        W(C) == {[c |-> c] : c \in C}
    IN  [cpu_utilization_band |-> CpuBands[rank],
         photon_suitability   |-> CpuPhotonSuitability(rank, low),
         cluster_count        |-> Cardinality({c.cluster_id : c \in G}),
         total_dbus           |-> Round2(SumClusterDbus(W(G))),
         total_cost_usd       |-> Round2(SumClusterCost(W(G))),
         order_rank           |-> rank]

(* ORDER BY CASE ... END: the band ranks ascending. *)
CpuSummaryOrdered(timeline, all, low) ==
    LET ranks == {CpuBandRank(Val(ClusterCpuStats(timeline, c.cluster_id)).avg_cpu)
                     : c \in all}
        row == [r \in ranks |-> CpuSummaryRow(timeline, all, r, low)]
    IN  {[i \in 1..Len(p) |-> row[p[i]]] : p \in
            {q \in Perms(ranks) : \A i, j \in 1..Len(q) : i < j => q[i] < q[j]}}

CpuSummaryResults ==
    CpuSummaryOrdered(WindowTimeline, CpuSummaryClusters,
                      "Likely I/O bound - Photon may not help")

RuCpuSummaryResults ==
    CpuSummaryOrdered(WorkerTimeline, RuCpuSummaryClusters,
                      "Not CPU-bound (I/O, memory, or other bottleneck)")

(* Cell: try: display(spark.sql(cpu_summary_query)) except: print(...) in   *)
(* Cluster_Optimization_Analysis.                                           *)
RunCpuSummary ==
    /\ pc = "cpu_summary"
    /\ IF "cpu_summary" \in failing
       THEN UNCHANGED result
       ELSE \E r \in CpuSummaryResults :
               result' = [result EXCEPT !["cpu_summary"] = Some(r)]
    /\ pc' = NextCell("cpu_summary")
    /\ UNCHANGED <<inputs, summary_data, output_tables, workspace_options, session>>

(* The same cell in Resource_Utilization_Analysis. *)
RunRuCpuSummary ==
    /\ pc = "ru_cpu_summary"
    /\ IF "ru_cpu_summary" \in failing
       THEN UNCHANGED result
       ELSE \E r \in RuCpuSummaryResults :
               result' = [result EXCEPT !["ru_cpu_summary"] = Some(r)]
    /\ pc' = NextCell("ru_cpu_summary")
    /\ UNCHANGED <<inputs, summary_data, output_tables, workspace_options, session>>

----------------------------------------------------------------------------
(* Inputs *)

MaxClusters == 2

ClusterNames == <<"c1", "c2", "c3", "c4">>
ClusterIds == {ClusterNames[i] : i \in 1..MaxClusters}

(* Widget defaults. *)
DefaultLookbackDays == 30
DefaultDriverCpuThreshold == 16
DefaultDriverMemoryGbThreshold == 64
DefaultVmThreshold ==
    [D |-> 5, E |-> 5, F |-> 2, L |-> 3, M |-> 2, N |-> 1, default |-> 5]

(* Runtime version strings found in system.compute.clusters.dbr_version:    *)
(* 11.3.x-scala2.12 (not an LTS schedule entry), 12.2.x-scala2.12,          *)
(* 13.3.x-photon-scala2.12, and a custom image name with no major.minor     *)
(* token.                                                                   *)
Scala212 == <<"-", "s", "c", "a", "l", "a", "2", ".", "1", "2">>
DbrVersions ==
    { <<"1", "1", ".", "3", ".", "x">> \o Scala212,
      <<"1", "2", ".", "2", ".", "x">> \o Scala212,
      <<"1", "3", ".", "3", ".", "x", "-", "p", "h", "o", "t", "o", "n">> \o Scala212,
      <<"c", "u", "s", "t", "o", "m", ":", "i", "m", "g">> }

DsV2 == StandardPrefix \o <<"D", "S", "3", "_", "v", "2">>

(* The dates on which the report is run: days before or after the end of    *)
(* support of 13.3 (2026-08-22).                                            *)
EosOffsets == {-1, 0, 179, 180, 364, 365}
TodayOptions == {DateToDays(2026, 8, 22) - d : d \in EosOffsets}

(* A cluster record that is active in the window. *)
ActiveCluster(id, ws, version, driver, worker) ==
    [cluster_id |-> id, workspace_id |-> ws, delete_time |-> Null,
     change_time |-> 0, dbr_version |-> version,
     driver_node_type |-> driver, worker_node_type |-> worker]

(* change_time is stored relative to the report date in the inputs below    *)
(* and made absolute here.                                                  *)
AtDate(c, day) == [c EXCEPT !.change_time = day + c.change_time]

(* One usage record of sku A inside the window. *)
UsageRecord(id, sku, qty, time) ==
    [cluster_id |-> Some(id), sku_name |-> sku, usage_quantity |-> qty,
     usage_start_time |-> time]

(* A price entry. *)
PriceEntry(sku, price, start, end) ==
    [sku_name |-> sku, price |-> price, price_start_time |-> start,
     price_end_time |-> end]

NoResults ==
    /\ result = [cell \in Cells |-> NotRun]
    /\ summary_data = <<>>
    /\ output_tables = {}
    /\ workspace_options = {}
    /\ dbr_lts_support_view = Null
    /\ reference_table = {}
    /\ summary_df = Null
    /\ printed = <<>>
    /\ configuration_summary = <<>>
    /\ first_run = Null

(* Widget default latest_lts_version. *)
LatestLtsWidget == latest_lts_version = <<"1", "7", ".", "3">>

(* Widget defaults output_catalog and output_schema. *)
OutputWidgets ==
    /\ output_catalog = "dbdemos_steventan"
    /\ output_schema = "waf"

(* system.compute.node_types: name, core_count, memory_mb. *)
NodeType(name, cores, mb) == [node_type |-> name, core_count |-> cores, memory_mb |-> mb]

DefaultWidgets ==
    /\ lookback_days = DefaultLookbackDays
    /\ driver_cpu_threshold = DefaultDriverCpuThreshold
    /\ driver_memory_gb_threshold = DefaultDriverMemoryGbThreshold
    /\ vm_threshold = DefaultVmThreshold

(* ---- Specification of section 1 over varying versions, dates and costs *)

(* Per cluster: absent (<<>>), or a version and the DBUs (in 1/1000) of its *)
(* one usage record (0: no usage record).                                   *)
QuantityOptions == {0, 1000, 2000}
SupportChoices == {<<>>} \cup (DbrVersions \X QuantityOptions)

Init ==
    /\ pc = "widgets"
    /\ today \in TodayOptions
    /\ DefaultWidgets
    /\ workspace_filter = "ALL"
    /\ node_types = {NodeType(DsV2, 4, 14336)}
    /\ node_timeline = {}
    /\ failing = {}
    /\ \E ch \in [ClusterIds -> SupportChoices] :
          /\ clusters =
                {AtDate(ActiveCluster(id, "w1", ch[id][1], DsV2, DsV2), today - 1)
                    : id \in {x \in ClusterIds : ch[x] # <<>>}}
          /\ usage =
                {UsageRecord(id, "A", ch[id][2], today - 1)
                    : id \in {x \in ClusterIds : ch[x] # <<>> /\ ch[x][2] # 0}}
    /\ list_prices = {PriceEntry("A", 3, today - 400, Null)}
    /\ LatestLtsWidget
    /\ OutputWidgets
    /\ NoResults

Next ==
    \/ RunWidgets
    \/ RunDbrReference
    \/ RunRuWidgets
    \/ RunOutdatedDbr
    \/ RunDbrDistribution
    \/ RunOldVm
    \/ RunVmDistribution
    \/ RunOversizedDriver
    \/ RunDriverSizingSummary
    \/ RunExecutiveSummary
    \/ RunPhotonAdoption
    \/ RunHighCpuPhoton
    \/ RunCpuSummary
    \/ RunPhotonCandidates
    \/ RunPhotonSummary
    \/ RunRuPhotonAdoption
    \/ RunRuHighCpuPhoton
    \/ RunRuCpuSummary
    \/ RunHighIoWait
    \/ RunHighMemory
    \/ RunResourceSummary
    \/ RunRuPhotonCandidates
    \/ RunRuPhotonSummary

Spec == Init /\ [][Next]_vars

----------------------------------------------------------------------------
(* Properties of section 1 *)

(* The support band of a number of days until end of support, as ranges.    *)
InBand(band, d) ==
    CASE band = "EXPIRED"   -> d < 0
      [] band = "CRITICAL"  -> d \in 0..179
      [] band = "WARNING"   -> d \in 180..364
      [] band = "SUPPORTED" -> d >= 365

Bands == {"EXPIRED", "CRITICAL", "WARNING", "SUPPORTED"}

(* The band a displayed status label stands for. *)
BandOfLabel(label) ==
    CASE label \in {"CRITICAL (<6 months)", "CRITICAL"} -> "CRITICAL"
      [] label \in {"WARNING (<1 year)", "WARNING"}     -> "WARNING"
      [] OTHER                                          -> label

(* C4: a cluster (or distribution group) whose version token matches a      *)
(* schedule entry is classified by days_until_eos alone: < 0 EXPIRED,       *)
(* 0..179 CRITICAL, 180..364 WARNING, >= 365 SUPPORTED; exactly one band    *)
(* holds of every value, 180 is WARNING and 365 is SUPPORTED.               *)
C4_SupportBands ==
    /\ \A i \in 1..Len(RowsOf(outdated_dbr_result)) :
          LET r == RowsOf(outdated_dbr_result)[i]
          IN  r.version_type = "LTS" =>
                /\ BandOfLabel(r.support_status) \in Bands
                /\ InBand(BandOfLabel(r.support_status), Val(r.days_until_eos))
                /\ Cardinality({b \in Bands : InBand(b, Val(r.days_until_eos))}) = 1
                /\ Val(r.days_until_eos) = 180 => r.support_status = "WARNING (<1 year)"
                /\ Val(r.days_until_eos) = 365 => r.support_status = "SUPPORTED"
    /\ \A i \in 1..Len(RowsOf(dbr_distribution_result)) :
          LET r == RowsOf(dbr_distribution_result)[i]
          IN  ~IsNull(r.end_of_support) =>
                /\ BandOfLabel(r.status) \in Bands
                /\ InBand(BandOfLabel(r.status), r.days_remaining)
                /\ r.days_remaining = 180 => r.status = "WARNING"
                /\ r.days_remaining = 365 => r.status = "SUPPORTED"

(* Both DBR cells have run and a scheduled version is exactly 180 days from *)
(* its end of support.                                                      *)
C4_Witness ==
    /\ outdated_dbr_result # NotRun
    /\ dbr_distribution_result # NotRun
    /\ \E i \in 1..Len(RowsOf(outdated_dbr_result)) :
          /\ RowsOf(outdated_dbr_result)[i].days_until_eos = Some(180)
          /\ RowsOf(outdated_dbr_result)[i].support_status = "WARNING (<1 year)"
    /\ \E i \in 1..Len(RowsOf(dbr_distribution_result)) :
          /\ ~IsNull(RowsOf(dbr_distribution_result)[i].end_of_support)
          /\ RowsOf(dbr_distribution_result)[i].days_remaining = 180

(* C5: every cluster without a schedule entry is 'CRITICAL (Non-LTS)' and   *)
(* is listed before every row of a scheduled version that has expired       *)
(* (days_until_eos < 0), in the cluster-level and the distribution result.  *)
C5_NonLtsAheadOfExpired ==
    /\ \A i, j \in 1..Len(RowsOf(outdated_dbr_result)) :
          LET a == RowsOf(outdated_dbr_result)[i]
              b == RowsOf(outdated_dbr_result)[j]
          IN  /\ a.version_type = "Non-LTS" => a.support_status = "CRITICAL (Non-LTS)"
              /\ (/\ a.version_type = "Non-LTS"
                  /\ b.version_type = "LTS"
                  /\ Val(b.days_until_eos) < 0) => i < j
    /\ \A i, j \in 1..Len(RowsOf(dbr_distribution_result)) :
          LET a == RowsOf(dbr_distribution_result)[i]
              b == RowsOf(dbr_distribution_result)[j]
          IN  /\ IsNull(a.end_of_support) => a.status = "CRITICAL (Non-LTS)"
              /\ (/\ IsNull(a.end_of_support)
                  /\ ~IsNull(b.end_of_support)
                  /\ b.days_remaining < 0) => i < j

(* Whether a cluster has cost data: a usage record inside the window.       *)
HasCostData(cid) ==
    \E u \in usage :
        /\ u.cluster_id = Some(cid)
        /\ u.usage_start_time >= today - lookback_days

(* Two rows of the cluster-level result are equally urgent. *)
SameUrgency(a, b) ==
    \/ a.version_type = "Non-LTS" /\ b.version_type = "Non-LTS"
    \/ /\ a.version_type = "LTS"
       /\ b.version_type = "LTS"
       /\ a.days_until_eos = b.days_until_eos

(* C6: in the cluster-level result a Non-LTS row precedes every row of a    *)
(* scheduled version with days_until_eos >= 0 whatever the costs; scheduled *)
(* versions are in ascending days_until_eos; equally urgent rows are in     *)
(* descending total cost, clusters without cost data last.                  *)
C6_UrgencyOrder ==
    \A i, j \in 1..Len(RowsOf(outdated_dbr_result)) :
        LET a == RowsOf(outdated_dbr_result)[i]
            b == RowsOf(outdated_dbr_result)[j]
        IN  /\ (/\ a.version_type = "Non-LTS"
                /\ b.version_type = "LTS"
                /\ Val(b.days_until_eos) >= 0) => i < j
            /\ (/\ i < j
                /\ a.version_type = "LTS"
                /\ b.version_type = "LTS")
                  => Val(a.days_until_eos) <= Val(b.days_until_eos)
            /\ (i < j /\ SameUrgency(a, b)) =>
                  /\ HasCostData(b.cluster_id) => HasCostData(a.cluster_id)
                  /\ (HasCostData(a.cluster_id) /\ HasCostData(b.cluster_id))
                        => a.total_cost_usd >= b.total_cost_usd

(* A Non-LTS cluster costing $3 is listed before a cluster on 13.3 with    *)
(* 179 days left costing $6.                                                *)
C6_Witness ==
    /\ outdated_dbr_result # NotRun
    /\ Len(RowsOf(outdated_dbr_result)) = 2
    /\ RowsOf(outdated_dbr_result)[1].version_type = "Non-LTS"
    /\ RowsOf(outdated_dbr_result)[1].total_cost_usd = 300
    /\ RowsOf(outdated_dbr_result)[2].days_until_eos = Some(179)
    /\ RowsOf(outdated_dbr_result)[2].total_cost_usd = 600

----------------------------------------------------------------------------
(* Specification of section 1 over varying usage records and price entries *)

MaxUsage == 2
MaxPrices == 2

(* The subsets of S with at most k elements. *)
RECURSIVE SubsetsUpTo(_, _)
SubsetsUpTo(S, k) ==
    IF k = 0 THEN {{}}
    ELSE LET smaller == SubsetsUpTo(S, k - 1)
         IN  smaller \cup {T \cup {x} : <<T, x>> \in smaller \X S}

ReportDate == DateToDays(2026, 11, 5)

(* Timestamps relative to the window start W: W - 1, W, W + 1. *)
CostTimes == {-1, 0, 1}
Skus == {"A", "B"}

(* Usage candidates: quantities (1/1000 DBU) differ per record so that a    *)
(* total tells which records went into it.                                  *)
UsageQuantity(id, sku, t) ==
    1000 * (t + 2) + (IF id = "c1" THEN 4 ELSE 305) + (IF sku = "A" THEN 0 ELSE 20)

UsageCandidates(W) ==
    {UsageRecord(id, sku, UsageQuantity(id, sku, t), W + t)
        : <<id, sku, t>> \in {"c1", "c2"} \X Skus \X CostTimes}
    \cup {[cluster_id |-> Null, sku_name |-> "A", usage_quantity |-> 7000,
           usage_start_time |-> W]}

(* Price candidates: the intervals [W, oo), [W, W+1) and [W+1, oo) for each *)
(* SKU, with prices that are distinct powers of two.                        *)
PriceCandidates(W) ==
    { PriceEntry("A", 1, W, Null), PriceEntry("A", 2, W, Some(W + 1)),
      PriceEntry("A", 4, W + 1, Null),
      PriceEntry("B", 8, W, Null), PriceEntry("B", 16, W, Some(W + 1)),
      PriceEntry("B", 32, W + 1, Null) }

V13 == <<"1", "3", ".", "3", ".", "x", "-", "p", "h", "o", "t", "o", "n">> \o Scala212

(* The second cluster record: active in w1, active in another workspace,    *)
(* deleted, or last changed before the window.                              *)
SecondClusterOptions(day, W) ==
    { AtDate(ActiveCluster("c2", "w1", V13, DsV2, DsV2), day - 1),
      AtDate(ActiveCluster("c2", "w2", V13, DsV2, DsV2), day - 1),
      [AtDate(ActiveCluster("c2", "w1", V13, DsV2, DsV2), day - 1)
          EXCEPT !.delete_time = Some(day - 1)],
      AtDate(ActiveCluster("c2", "w1", V13, DsV2, DsV2), W - 1) }

InitCost ==
    /\ pc = "widgets"
    /\ today = ReportDate
    /\ DefaultWidgets
    /\ workspace_filter = "w1"
    /\ node_types = {NodeType(DsV2, 4, 14336)}
    /\ node_timeline = {}
    /\ failing = {}
    /\ \E c2 \in SecondClusterOptions(today, today - lookback_days) :
          clusters = {AtDate(ActiveCluster("c1", "w1", V13, DsV2, DsV2), today - 1), c2}
    /\ usage \in SubsetsUpTo(UsageCandidates(today - lookback_days), MaxUsage)
    /\ list_prices \in SubsetsUpTo(PriceCandidates(today - lookback_days), MaxPrices)
    /\ LatestLtsWidget
    /\ OutputWidgets
    /\ NoResults

SpecCost == InitCost /\ [][Next]_vars

----------------------------------------------------------------------------
(* Properties of the cost attribution *)

(* The sum of the values of a function with a finite domain. *)
RECURSIVE SumFn(_)
SumFn(f) ==
    IF DOMAIN f = {} THEN 0
    ELSE LET x == CHOOSE y \in DOMAIN f : TRUE
         IN  f[x] + SumFn([y \in DOMAIN f \ {x} |-> f[y]])

(* The usage records of a cluster inside the lookback window. *)
RecordsInWindow(cid) ==
    {u \in usage :
        u.cluster_id = Some(cid) /\ ~(u.usage_start_time < today - lookback_days)}

(* A price entry is valid for a usage record: same SKU, not before the      *)
(* entry starts, and the entry is open-ended or ends after the record.      *)
ValidPrice(u, lp) ==
    /\ lp.sku_name = u.sku_name
    /\ lp.price_start_time <= u.usage_start_time
    /\ (lp.price_end_time = Null \/ Val(lp.price_end_time) > u.usage_start_time)

ValidPrices(u) == {lp \in list_prices : ValidPrice(u, lp)}

(* C1: a usage record in the window whose SKU has no price entry valid at   *)
(* its timestamp adds exactly 0 to its cluster's total_cost_usd and its     *)
(* full usage_quantity, once, to the cluster's total_dbus: the totals are   *)
(* those of the priced records plus the quantities of the unpriced ones.    *)
C1_UnpricedUsageCounted ==
    \A i \in 1..Len(RowsOf(outdated_dbr_result)) :
        LET r        == RowsOf(outdated_dbr_result)[i]
            recs     == RecordsInWindow(r.cluster_id)
            unpriced == {u \in recs : ValidPrices(u) = {}}
            priced   == recs \ unpriced
        IN  /\ r.total_dbus =
                  Round2(SumFn([u \in unpriced |-> u.usage_quantity])
                         + SumFn([u \in priced |->
                                    u.usage_quantity * Cardinality(ValidPrices(u))]))
            /\ r.total_cost_usd =
                  Round2(SumFn([u \in priced |->
                            SumFn([lp \in ValidPrices(u) |->
                                      u.usage_quantity * lp.price])]))
            /\ priced = {} => r.total_cost_usd = 0

(* A cluster with one priced and one unpriced record in the window is       *)
(* reported with the DBUs of both and the cost of the priced one.           *)
C1_Witness ==
    /\ ~IsNull(outdated_dbr_result)
    /\ \E i \in 1..Len(RowsOf(outdated_dbr_result)) :
          LET r    == RowsOf(outdated_dbr_result)[i]
              recs == RecordsInWindow(r.cluster_id)
          IN  /\ Cardinality(recs) = 2
              /\ \E u, w \in recs :
                    /\ ValidPrices(u) = {}
                    /\ Cardinality(ValidPrices(w)) = 1
                    /\ r.total_dbus = Round2(u.usage_quantity + w.usage_quantity)
                    /\ r.total_cost_usd > 0

(* C2: a price entry is applied to a usage record iff it has the same SKU,  *)
(* price_start_time <= usage_start_time and price_end_time is NULL or after *)
(* usage_start_time: a cluster's cost is the sum of quantity times price    *)
(* over exactly these pairs, so a record stamped at price_start_time is     *)
(* priced by the entry and one stamped at price_end_time is not.            *)
C2_PriceValidityInterval ==
    \A i \in 1..Len(RowsOf(outdated_dbr_result)) :
        LET r    == RowsOf(outdated_dbr_result)[i]
            recs == RecordsInWindow(r.cluster_id)
            applied == {p \in recs \X list_prices :
                          /\ p[1].sku_name = p[2].sku_name
                          /\ p[2].price_start_time <= p[1].usage_start_time
                          /\ \/ IsNull(p[2].price_end_time)
                             \/ p[1].usage_start_time < Val(p[2].price_end_time)}
        IN  /\ r.total_cost_usd =
                  Round2(SumFn([p \in applied |-> p[1].usage_quantity * p[2].price]))
            /\ \A p \in recs \X list_prices :
                  (/\ Cardinality(recs) = 1
                   /\ p[1].sku_name = p[2].sku_name
                   /\ Cardinality({lp \in list_prices : lp.sku_name = p[1].sku_name}) = 1)
                  => /\ p[1].usage_start_time = p[2].price_start_time
                          => r.total_cost_usd = Round2(p[1].usage_quantity * p[2].price)
                     /\ Some(p[1].usage_start_time) = p[2].price_end_time
                          => r.total_cost_usd = 0
                     /\ (/\ IsNull(p[2].price_end_time)
                         /\ p[1].usage_start_time > p[2].price_start_time)
                          => r.total_cost_usd = Round2(p[1].usage_quantity * p[2].price)

(* A record stamped at the end of the only price entry of its SKU costs 0,  *)
(* while another cluster's record stamped at an entry's start is priced.    *)
C2_Witness ==
    /\ ~IsNull(outdated_dbr_result)
    /\ \E i, j \in 1..Len(RowsOf(outdated_dbr_result)) :
          LET r == RowsOf(outdated_dbr_result)[i]
              q == RowsOf(outdated_dbr_result)[j]
          IN  /\ \E u \in RecordsInWindow(r.cluster_id), lp \in list_prices :
                    /\ RecordsInWindow(r.cluster_id) = {u}
                    /\ lp.sku_name = u.sku_name
                    /\ lp.price_end_time = Some(u.usage_start_time)
                    /\ r.total_cost_usd = 0
              /\ \E u \in RecordsInWindow(q.cluster_id), lp \in list_prices :
                    /\ RecordsInWindow(q.cluster_id) = {u}
                    /\ lp.sku_name = u.sku_name
                    /\ lp.price_start_time = u.usage_start_time
                    /\ q.total_cost_usd = Round2(u.usage_quantity * lp.price)
                    /\ q.total_cost_usd > 0

(* A cluster record is active and passes the workspace filter. *)
ActiveInWindow(c) ==
    /\ c.delete_time = Null
    /\ c.change_time >= today - lookback_days
    /\ workspace_filter \in {"ALL", c.workspace_id}

(* C3: once the cluster-level DBR cell has run, every active cluster that   *)
(* passes the workspace filter and has no usage record in the window has a  *)
(* row in the result, with total_dbus = 0 and total_cost_usd = 0.           *)
C3_NoUsageRowIsZero ==
    ~IsNull(outdated_dbr_result) =>
        \A c \in clusters :
            (ActiveInWindow(c) /\ RecordsInWindow(c.cluster_id) = {}) =>
                /\ \E i \in 1..Len(RowsOf(outdated_dbr_result)) :
                      RowsOf(outdated_dbr_result)[i].cluster_id = c.cluster_id
                /\ \A i \in 1..Len(RowsOf(outdated_dbr_result)) :
                      LET r == RowsOf(outdated_dbr_result)[i]
                      IN  r.cluster_id = c.cluster_id =>
                              r.total_dbus = 0 /\ r.total_cost_usd = 0

(* An active cluster whose only usage record lies before the window is      *)
(* reported with zero DBUs and zero cost, next to a cluster with cost.      *)
C3_Witness ==
    /\ ~IsNull(outdated_dbr_result)
    /\ Len(RowsOf(outdated_dbr_result)) = 2
    /\ \E c \in clusters :
          /\ ActiveInWindow(c)
          /\ RecordsInWindow(c.cluster_id) = {}
          /\ \E u \in usage : u.cluster_id = Some(c.cluster_id)
          /\ \E i \in 1..2 :
                /\ RowsOf(outdated_dbr_result)[i].cluster_id = c.cluster_id
                /\ RowsOf(outdated_dbr_result)[i].total_dbus = 0
                /\ RowsOf(outdated_dbr_result)[i].total_cost_usd = 0
    /\ \E i \in 1..2 : RowsOf(outdated_dbr_result)[i].total_cost_usd > 0

----------------------------------------------------------------------------
(* ---- Specification of the VM generation checks over varying node types   *)
(* and thresholds                                                           *)

(* Node type names. *)
D16sV3 ==
    <<"S", "t", "a", "n", "d", "a", "r", "d", "_", "D", "1", "6", "s",
      "_", "v", "3">>
D8sV5 ==
    <<"S", "t", "a", "n", "d", "a", "r", "d", "_", "D", "8", "s", "_",
      "v", "5">>
E8dsV4 ==
    <<"S", "t", "a", "n", "d", "a", "r", "d", "_", "E", "8", "d", "s",
      "_", "v", "4">>
F4 ==
    <<"S", "t", "a", "n", "d", "a", "r", "d", "_", "F", "4">>
NC6sV3 ==
    <<"S", "t", "a", "n", "d", "a", "r", "d", "_", "N", "C", "6", "s",
      "_", "v", "3">>
HB120rsV2 ==
    <<"S", "t", "a", "n", "d", "a", "r", "d", "_", "H", "B", "1", "2",
      "0", "r", "s", "_", "v", "2">>
L8sV3 ==
    <<"S", "t", "a", "n", "d", "a", "r", "d", "_", "L", "8", "s", "_",
      "v", "3">>
M5Xlarge ==
    <<"m", "5", ".", "x", "l", "a", "r", "g", "e">>

(* (driver, worker) node types of a cluster. *)
NodeTypePairs ==
    { <<D16sV3, D16sV3>>, <<D8sV5, D8sV5>>, <<DsV2, DsV2>>, <<E8dsV4, D8sV5>>,
      <<F4, D8sV5>>, <<F4, D16sV3>>, <<D8sV5, F4>>, <<NC6sV3, D16sV3>>,
      <<D8sV5, NC6sV3>>, <<HB120rsV2, HB120rsV2>>, <<L8sV3, L8sV3>>,
      <<M5Xlarge, M5Xlarge>> }

(* system.compute.node_types; m5.xlarge and Standard_F4 have no entry. *)
NodeTypeCatalog ==
    { NodeType(DsV2, 4, 14336), NodeType(D16sV3, 16, 65536),
      NodeType(D8sV5, 8, 32768), NodeType(E8dsV4, 8, 65536),
      NodeType(NC6sV3, 6, 114688), NodeType(HB120rsV2, 120, 466944),
      NodeType(L8sV3, 8, 65536) }

(* Widget choices for vm_threshold_D and vm_threshold_default (both offer   *)
(* 3..6); the other series keep their defaults.                             *)
VmThresholdOptions ==
    { DefaultVmThreshold,
      [DefaultVmThreshold EXCEPT !.D = 3],
      [DefaultVmThreshold EXCEPT !.default = 3] }

(* DBUs (1/1000) of the one usage record of a cluster. *)
VmUsageQuantity(id) == IF id = "c1" THEN 1000 ELSE 2500

InitVm ==
    /\ pc = "widgets"
    /\ today = ReportDate
    /\ lookback_days = DefaultLookbackDays
    /\ driver_cpu_threshold = DefaultDriverCpuThreshold
    /\ driver_memory_gb_threshold = DefaultDriverMemoryGbThreshold
    /\ vm_threshold \in VmThresholdOptions
    /\ workspace_filter = "ALL"
    /\ node_types = NodeTypeCatalog
    /\ node_timeline = {}
    /\ failing \in {{}, {"warning_dbr"}}
    /\ \E ch \in [ClusterIds -> {<<>>} \cup NodeTypePairs] :
          /\ clusters =
                {AtDate(ActiveCluster(id, "w1", V13, ch[id][1], ch[id][2]), today - 1)
                    : id \in {x \in ClusterIds : ch[x] # <<>>}}
          /\ usage =
                {UsageRecord(id, "A", VmUsageQuantity(id), today - 1)
                    : id \in {x \in ClusterIds : ch[x] # <<>>}}
    /\ list_prices = {PriceEntry("A", 3, today - 400, Null)}
    /\ LatestLtsWidget
    /\ OutputWidgets
    /\ NoResults

SpecVm == InitVm /\ [][Next]_vars

----------------------------------------------------------------------------
(* Properties of the VM generation checks *)

NotAvailable == <<"N", "/", "A">>
OldVmCategory == "Older VM Generations (Below Threshold)"

(* The node-type name contains a '_v<N>' token. *)
HasGenToken(s) ==
    \E i \in 1..Len(s) :
        i + 2 <= Len(s) /\ s[i] = "_" /\ s[i + 1] = "v" /\ IsDigit(s[i + 2])

(* The role's generation is known and strictly below the threshold of the   *)
(* role's own series.                                                       *)
RoleBelowThreshold(node_type) ==
    LET gen == TryCastInt(RegexpExtractGen(node_type))
    IN  /\ ~IsNull(gen)
        /\ Val(gen) < SeriesThreshold(RegexpExtractSeries(node_type))

FlaggedClusterIds ==
    {c.cluster_id : c \in
        {x \in ActiveClusters :
            \/ RoleBelowThreshold(x.driver_node_type)
            \/ RoleBelowThreshold(x.worker_node_type)}}

OldVmRowIds ==
    {RowsOf(old_vm_result)[i].cluster_id : i \in 1..Len(RowsOf(old_vm_result))}

(* C7: a cluster is in the cluster-level VM result iff its driver           *)
(* generation is strictly below the driver's series threshold or its worker *)
(* generation is strictly below the worker's series threshold, and the      *)
(* executive-summary VM row counts exactly the same clusters.               *)
C7_FlaggedIffBelowThreshold ==
    /\ ~IsNull(old_vm_result) =>
          /\ OldVmRowIds = FlaggedClusterIds
          /\ \A i \in 1..Len(RowsOf(old_vm_result)) :
                RowsOf(old_vm_result)[i].vm_status = "Below Recommended"
    /\ \A k \in 1..Len(summary_data) :
          summary_data[k].category = OldVmCategory =>
              summary_data[k].cluster_count = Cardinality(FlaggedClusterIds)

(* C7 witness: with the D threshold at 3, a cluster running D-series        *)
(* generation 3 on both roles is not flagged while another cluster is, and  *)
(* the summary row counts that one cluster.                                 *)
C7_Witness ==
    /\ vm_threshold.D = 3
    /\ \E c \in ActiveClusters :
          /\ c.driver_node_type = D16sV3 /\ c.worker_node_type = D16sV3
          /\ c.cluster_id \notin OldVmRowIds
    /\ Len(RowsOf(old_vm_result)) = 1
    /\ \E k \in 1..Len(summary_data) :
          /\ summary_data[k].category = OldVmCategory
          /\ summary_data[k].cluster_count = 1

(* C8: a role whose node type has no '_v<N>' token never causes its cluster *)
(* to be listed (a cluster with such a role and a compliant other role is   *)
(* absent from the result), and in a listed row its generation column       *)
(* reads 'N/A'.                                                             *)
C8_UnparseableIsCompliant ==
    ~IsNull(old_vm_result) =>
        /\ \A c \in ActiveClusters :
              \/ /\ ~HasGenToken(c.driver_node_type)
                 /\ ~RoleBelowThreshold(c.worker_node_type)
              \/ /\ ~HasGenToken(c.worker_node_type)
                 /\ ~RoleBelowThreshold(c.driver_node_type)
              => c.cluster_id \notin OldVmRowIds
        /\ \A i \in 1..Len(RowsOf(old_vm_result)) :
              LET r == RowsOf(old_vm_result)[i]
              IN  /\ ~HasGenToken(r.driver_node_type) =>
                         r.driver_vm_generation = NotAvailable
                  /\ ~HasGenToken(r.worker_node_type) =>
                         r.worker_vm_generation = NotAvailable

(* C8 witness: one cluster with driver Standard_F4 and a compliant worker   *)
(* is not listed; another with driver Standard_F4 and an old worker is      *)
(* listed with driver generation 'N/A'.                                     *)
C8_Witness ==
    /\ \E c \in ActiveClusters :
          /\ c.driver_node_type = F4 /\ c.worker_node_type = D8sV5
          /\ c.cluster_id \notin OldVmRowIds
    /\ \E i \in 1..Len(RowsOf(old_vm_result)) :
          /\ RowsOf(old_vm_result)[i].driver_node_type = F4
          /\ RowsOf(old_vm_result)[i].driver_vm_generation = NotAvailable

RecognizedSeries == {"D", "E", "F", "L", "M", "N"}

(* The (series, threshold) pairs shown by the cluster-level VM result, for  *)
(* both roles of every listed cluster.                                      *)
ShownThresholds ==
    UNION {{<<RowsOf(old_vm_result)[i].driver_series,
              RowsOf(old_vm_result)[i].driver_min_recommended>>,
            <<RowsOf(old_vm_result)[i].worker_series,
              RowsOf(old_vm_result)[i].worker_min_recommended>>}
           : i \in 1..Len(RowsOf(old_vm_result))}

(* C9 as stated: a series that is one of D, E, F, L, M, N gets that series' *)
(* threshold and every other series string gets the default threshold.      *)
C9_ThresholdBySeriesMembership ==
    \A st \in ShownThresholds :
        st[2] = IF Len(st[1]) = 1 /\ st[1][1] \in RecognizedSeries
                THEN vm_threshold[st[1][1]]
                ELSE vm_threshold.default

(* C9 amended: a series string that begins with one of D, E, F, L, M, N     *)
(* gets that letter's threshold, whichever letter is tested first, and a    *)
(* series string that begins with none of them (the empty string included)  *)
(* gets the default threshold; the distribution shows the same threshold    *)
(* for the driver series.                                                   *)
C9_ThresholdBySeriesPrefix ==
    /\ \A st \in ShownThresholds :
          /\ \A l \in RecognizedSeries :
                (Len(st[1]) >= 1 /\ st[1][1] = l) => st[2] = vm_threshold[l]
          /\ (st[1] = <<>> \/ st[1][1] \notin RecognizedSeries) =>
                st[2] = vm_threshold.default
    /\ \A i \in 1..Len(RowsOf(vm_distribution_result)) :
          LET r == RowsOf(vm_distribution_result)[i]
          IN  r.min_recommended = <<"v">> \o IntToString(
                  IF r.series # <<>> /\ r.series[1] \in RecognizedSeries
                  THEN vm_threshold[r.series[1]]
                  ELSE vm_threshold.default)

(* C9 witness: a listed cluster whose driver series is "NC" is shown with   *)
(* the N threshold, which differs from the default; another listed role     *)
(* has a series outside the six letters.                                    *)
C9_Witness ==
    /\ vm_threshold.N # vm_threshold.default
    /\ <<<<"N", "C">>, vm_threshold.N>> \in ShownThresholds
    /\ <<<<"H", "B">>, vm_threshold.default>> \in ShownThresholds
    /\ ~IsNull(vm_distribution_result)

----------------------------------------------------------------------------
(* ---- Specification of the resource utilization summary over varying      *)
(* node_timeline samples                                                    *)

MaxSamples == 2

(* One node_timeline row; the metrics are nullable whole percents. *)
Sample(id, time, driver, user, system, wait, memory, swap) ==
    [cluster_id |-> id, start_time |-> time, driver |-> driver,
     cpu_user_percent |-> user, cpu_system_percent |-> system,
     cpu_wait_percent |-> wait, memory_used_percent |-> memory,
     swap_used_percent |-> swap]

(* Sample candidates of cluster id at report date day: memory, I/O wait and *)
(* CPU all high; swap only; I/O wait only; CPU only; idle; memory just      *)
(* below and I/O wait just below their limits; no metrics reported; a       *)
(* driver sample; a sample from before the window.                          *)
SampleCandidates(id, day) ==
    { Sample(id, day - 1, FALSE, Some(40), Some(20), Some(25), Some(85), Some(0)),
      Sample(id, day - 2, FALSE, Some(10), Some(5), Some(5), Some(40), Some(10)),
      Sample(id, day - 3, FALSE, Some(10), Some(5), Some(30), Some(40), Some(0)),
      Sample(id, day - 4, FALSE, Some(50), Some(10), Some(5), Some(40), Some(0)),
      Sample(id, day - 5, FALSE, Some(5), Some(5), Some(0), Some(10), Some(0)),
      Sample(id, day - 6, FALSE, Some(30), Some(10), Some(15), Some(75), Some(0)),
      Sample(id, day - 7, FALSE, Null, Null, Null, Null, Null),
      Sample(id, day - 8, TRUE, Some(60), Some(20), Some(30), Some(95), Some(20)),
      Sample(id, day - 40, FALSE, Some(60), Some(20), Some(30), Some(95), Some(20)) }

InitRes ==
    /\ pc = "widgets"
    /\ today = ReportDate
    /\ DefaultWidgets
    /\ workspace_filter = "ALL"
    /\ node_types = {NodeType(DsV2, 4, 14336)}
    /\ failing \in {{}, {"resource_summary"}}
    /\ clusters = {AtDate(ActiveCluster(id, "w1", V13, DsV2, DsV2), today - 1)
                      : id \in ClusterIds}
    /\ node_timeline \in
          SubsetsUpTo(UNION {SampleCandidates(id, today) : id \in ClusterIds},
                      MaxSamples)
    /\ usage = {UsageRecord(id, "A", VmUsageQuantity(id), today - 1) : id \in ClusterIds}
    /\ list_prices = {PriceEntry("A", 3, today - 400, Null)}
    /\ LatestLtsWidget
    /\ OutputWidgets
    /\ NoResults

SpecRes == InitRes /\ [][Next]_vars

----------------------------------------------------------------------------
(* Properties of the resource utilization summary *)

BottleneckTypes == {"Memory-bound", "I/O-bound", "CPU-bound", "Balanced/Underutilized"}

(* The worker samples of cluster id inside the window. *)
SamplesOf(id) ==
    {x \in node_timeline :
        x.cluster_id = id /\ ~x.driver /\ x.start_time >= today - lookback_days}

(* Sum and count of the reported (non-NULL) values of a metric. *)
RECURSIVE MetricSum(_, _)
MetricSum(S, metric) ==
    IF S = {} THEN 0
    ELSE LET x == CHOOSE y \in S : TRUE
         IN  (IF IsNull(x[metric]) THEN 0 ELSE Val(x[metric]))
             + MetricSum(S \ {x}, metric)

MetricCount(S, metric) == Cardinality({x \in S : ~IsNull(x[metric])})

(* The average of the metric over the samples is at least k percent. *)
MeanAtLeast(S, metric, k) ==
    /\ MetricCount(S, metric) > 0
    /\ MetricSum(S, metric) >= k * MetricCount(S, metric)

MemoryCondition(S) ==
    MeanAtLeast(S, "swap_used_percent", 5) \/ MeanAtLeast(S, "memory_used_percent", 80)

IoCondition(S) == MeanAtLeast(S, "cpu_wait_percent", 20)

CpuCondition(S) ==
    LET both == {x \in S : ~IsNull(x.cpu_user_percent) /\ ~IsNull(x.cpu_system_percent)}
    IN  /\ both # {}
        /\ MetricSum(both, "cpu_user_percent") + MetricSum(both, "cpu_system_percent")
              >= 50 * Cardinality(both)

(* The categories a cluster belongs to when memory is looked at first, then *)
(* I/O wait, then CPU.                                                      *)
CategoriesOf(S) ==
    {t \in BottleneckTypes :
        \/ t = "Memory-bound" /\ MemoryCondition(S)
        \/ t = "I/O-bound" /\ ~MemoryCondition(S) /\ IoCondition(S)
        \/ t = "CPU-bound" /\ ~MemoryCondition(S) /\ ~IoCondition(S) /\ CpuCondition(S)
        \/ /\ t = "Balanced/Underutilized"
           /\ ~MemoryCondition(S) /\ ~IoCondition(S) /\ ~CpuCondition(S)}

(* The active cluster records that have utilization data. *)
ClustersWithData == {c \in ActiveClusters : SamplesOf(c.cluster_id) # {}}

(* C10: every active cluster with utilization data has exactly one          *)
(* category, found by testing memory, then I/O wait, then CPU; the summary  *)
(* has one row per category in use, each row counts the clusters of its     *)
(* category, and the counts add up to the number of clusters with data.     *)
C10_ClassificationTotalExclusive ==
    ~IsNull(resource_summary_result) =>
        LET rows == RowsOf(resource_summary_result)
            CountOf(t) ==
                Cardinality({c \in ClustersWithData :
                                t \in CategoriesOf(SamplesOf(c.cluster_id))})
        IN  /\ \A c \in ClustersWithData :
                  Cardinality(CategoriesOf(SamplesOf(c.cluster_id))) = 1
            /\ \A i \in 1..Len(rows) :
                  /\ rows[i].bottleneck_type \in BottleneckTypes
                  /\ rows[i].cluster_count = CountOf(rows[i].bottleneck_type)
                  /\ \A j \in 1..Len(rows) :
                        rows[i].bottleneck_type = rows[j].bottleneck_type => i = j
            /\ \A t \in BottleneckTypes :
                  CountOf(t) > 0 => \E i \in 1..Len(rows) : rows[i].bottleneck_type = t

(* C10 witness: a cluster whose averages meet the memory, the I/O-wait and  *)
(* the CPU condition at once is the one cluster of the Memory-bound row,    *)
(* and a second cluster is counted in another row.                          *)
C10_Witness ==
    /\ \E c \in ClustersWithData :
          /\ MemoryCondition(SamplesOf(c.cluster_id))
          /\ IoCondition(SamplesOf(c.cluster_id))
          /\ CpuCondition(SamplesOf(c.cluster_id))
    /\ Len(RowsOf(resource_summary_result)) = 2
    /\ \E i \in 1..2 :
          /\ RowsOf(resource_summary_result)[i].bottleneck_type = "Memory-bound"
          /\ RowsOf(resource_summary_result)[i].cluster_count = 1

(* The cluster ids listed by a displayed detail result. *)
ListedIds(res) == {RowsOf(res)[i].cluster_id : i \in 1..Len(RowsOf(res))}

(* The cluster_count of the summary row of a bottleneck type, 0 when the    *)
(* summary has no such row.                                                 *)
SummaryCount(t) ==
    LET rows == RowsOf(resource_summary_result)
        at == {i \in 1..Len(rows) : rows[i].bottleneck_type = t}
    IN  IF at = {} THEN 0 ELSE rows[CHOOSE i \in at : TRUE].cluster_count

(* Active clusters whose average worker memory use is at least 70 percent. *)
MemoryAtLeast70 ==
    {c \in ClustersWithData : MeanAtLeast(SamplesOf(c.cluster_id), "memory_used_percent", 70)}

(* C11: a cluster whose average worker memory_used_percent over the window  *)
(* is at least 70 is listed by the high-memory query and is counted in the  *)
(* 'Memory-bound' row of the resource utilization summary.                  *)
C11_Memory70IsMemoryBound ==
    /\ ~IsNull(high_memory_result) =>
          {c.cluster_id : c \in MemoryAtLeast70} \subseteq ListedIds(high_memory_result)
    /\ ~IsNull(resource_summary_result) =>
          \A c \in MemoryAtLeast70 :
              "Memory-bound" \in CategoriesOf(SamplesOf(c.cluster_id))
    /\ ~IsNull(resource_summary_result) =>
          SummaryCount("Memory-bound") >= Cardinality(MemoryAtLeast70)

(* C11 holds of the high-memory list alone: every active cluster whose      *)
(* average worker memory is at least 70 percent, or whose average swap is   *)
(* at least 5 percent, is listed, and no other cluster is.                  *)
C11_HighMemoryListed ==
    ~IsNull(high_memory_result) =>
        ListedIds(high_memory_result) =
            {c.cluster_id : c \in
                {x \in ClustersWithData :
                    \/ MeanAtLeast(SamplesOf(x.cluster_id), "memory_used_percent", 70)
                    \/ MeanAtLeast(SamplesOf(x.cluster_id), "swap_used_percent", 5)}}

(* Both cells have run, and a cluster with average memory between 70 and 80 *)
(* percent and no swapping is listed by the high-memory query.              *)
C11_Witness ==
    /\ ~IsNull(resource_summary_result)
    /\ ~IsNull(high_memory_result)
    /\ \E c \in MemoryAtLeast70 :
          /\ ~MemoryCondition(SamplesOf(c.cluster_id))
          /\ c.cluster_id \in ListedIds(high_memory_result)

(* Active clusters whose average worker I/O wait is at least 10 percent and *)
(* that meet no memory condition: average memory below 70 percent and       *)
(* average swap below 5 percent.                                            *)
IoWaitAtLeast10 ==
    {c \in ClustersWithData :
        /\ MeanAtLeast(SamplesOf(c.cluster_id), "cpu_wait_percent", 10)
        /\ ~MeanAtLeast(SamplesOf(c.cluster_id), "memory_used_percent", 70)
        /\ ~MeanAtLeast(SamplesOf(c.cluster_id), "swap_used_percent", 5)}

(* C12: a cluster whose average worker cpu_wait_percent over the window is  *)
(* at least 10 and which does not meet the memory condition is listed by    *)
(* the high-I/O-wait query and is counted in the 'I/O-bound' row of the     *)
(* resource utilization summary.                                            *)
C12_IoWait10IsIoBound ==
    /\ ~IsNull(high_io_wait_result) =>
          {c.cluster_id : c \in IoWaitAtLeast10} \subseteq ListedIds(high_io_wait_result)
    /\ ~IsNull(resource_summary_result) =>
          \A c \in IoWaitAtLeast10 :
              "I/O-bound" \in CategoriesOf(SamplesOf(c.cluster_id))
    /\ ~IsNull(resource_summary_result) =>
          SummaryCount("I/O-bound") >= Cardinality(IoWaitAtLeast10)

(* C12 holds of the high-I/O-wait list alone: exactly the active clusters   *)
(* whose average worker I/O wait is at least 10 percent are listed.         *)
C12_HighIoWaitListed ==
    ~IsNull(high_io_wait_result) =>
        ListedIds(high_io_wait_result) =
            {c.cluster_id : c \in
                {x \in ClustersWithData :
                    MeanAtLeast(SamplesOf(x.cluster_id), "cpu_wait_percent", 10)}}

(* Both cells have run, and a cluster with average I/O wait between 10 and  *)
(* 20 percent that meets no memory condition is listed by the               *)
(* high-I/O-wait query.                                                     *)
C12_Witness ==
    /\ ~IsNull(resource_summary_result)
    /\ ~IsNull(high_io_wait_result)
    /\ \E c \in IoWaitAtLeast10 :
          /\ ~IoCondition(SamplesOf(c.cluster_id))
          /\ c.cluster_id \in ListedIds(high_io_wait_result)

----------------------------------------------------------------------------
(* Properties of driver sizing *)

(* The catalog entries of the driver node type of cluster c. *)
DriverEntries(c) == {nt \in node_types : nt.node_type = c.driver_node_type}

TooManyVcpus(nt) == nt.core_count > driver_cpu_threshold
TooMuchMemory(nt) == nt.memory_mb > driver_memory_gb_threshold * 1024

(* C15: an active cluster is in the oversized-driver result iff its driver  *)
(* has more vCPUs than the vCPU threshold or more memory (memory_mb / 1024) *)
(* than the memory threshold, both strictly; the status is 'vCPUs Too High' *)
(* whenever the vCPU predicate holds, 'Memory Too High' when only the       *)
(* memory predicate holds, and a driver exactly at both thresholds is not   *)
(* in the result.                                                           *)
C15_OversizedDriverStrict ==
    ~IsNull(oversized_driver_result) =>
        LET rows == RowsOf(oversized_driver_result)
        IN  /\ \A c \in ActiveClusters :
                  (\E i \in 1..Len(rows) : rows[i].cluster_id = c.cluster_id)
                      <=> (\E nt \in DriverEntries(c) : TooManyVcpus(nt) \/ TooMuchMemory(nt))
            /\ \A i \in 1..Len(rows) :
                  \E c \in ActiveClusters : \E nt \in DriverEntries(c) :
                      /\ rows[i].cluster_id = c.cluster_id
                      /\ rows[i].sizing_status =
                            IF TooManyVcpus(nt) THEN "vCPUs Too High" ELSE "Memory Too High"
            /\ \A c \in ActiveClusters : \A nt \in DriverEntries(c) :
                  (/\ nt.core_count = driver_cpu_threshold
                   /\ nt.memory_mb = driver_memory_gb_threshold * 1024)
                      => \A i \in 1..Len(rows) : rows[i].cluster_id # c.cluster_id

(* The oversized-driver cell has run over a cluster whose driver is exactly *)
(* at both thresholds, which is not listed, and a cluster whose driver is   *)
(* over both thresholds, which is listed as 'vCPUs Too High'.               *)
C15_Witness ==
    /\ ~IsNull(oversized_driver_result)
    /\ \E c \in ActiveClusters : \E nt \in DriverEntries(c) :
          /\ nt.core_count = driver_cpu_threshold
          /\ nt.memory_mb = driver_memory_gb_threshold * 1024
          /\ c.cluster_id \notin ListedIds(oversized_driver_result)
    /\ \E c \in ActiveClusters : \E nt \in DriverEntries(c) :
          /\ TooManyVcpus(nt) /\ TooMuchMemory(nt)
          /\ \E i \in 1..Len(RowsOf(oversized_driver_result)) :
                /\ RowsOf(oversized_driver_result)[i].cluster_id = c.cluster_id
                /\ RowsOf(oversized_driver_result)[i].sizing_status = "vCPUs Too High"

(* A cluster whose driver exceeds only the memory threshold is listed as    *)
(* 'Memory Too High'.                                                       *)
C15_MemoryOnlyReached ==
    /\ ~IsNull(oversized_driver_result)
    /\ \E i \in 1..Len(RowsOf(oversized_driver_result)) :
          RowsOf(oversized_driver_result)[i].sizing_status = "Memory Too High"

----------------------------------------------------------------------------
(* Specification of the failure handling: the queries that raise vary. *)

(* The cells that read system.compute.node_timeline. *)
TimelineReaders ==
    {"high_cpu_photon", "cpu_summary", "ru_high_cpu_photon", "ru_cpu_summary",
     "high_io_wait", "high_memory", "resource_summary"}

(* The cost-based Photon candidate cells. *)
CostBasedPhotonCells ==
    {"photon_candidates", "photon_summary", "ru_photon_candidates", "ru_photon_summary"}

(* What can be missing or inaccessible: nothing, the source of one cell,    *)
(* the sources of any of the executive summary queries, or the timeline     *)
(* table.                                                                   *)
FaultScenarios ==
    {{}} \cup {{q} : q \in Cells \cup ExecutiveQueries \cup {"workspace_ids"}}
    \cup {TimelineReaders} \cup (SUBSET ExecutiveQueries)

V12 == <<"1", "2", ".", "2", ".", "x">> \o Scala212

InitFault ==
    /\ pc = "widgets"
    /\ today = ReportDate
    /\ DefaultWidgets
    /\ workspace_filter = "ALL"
    /\ node_types = {NodeType(DsV2, 4, 14336)}
    /\ failing \in FaultScenarios
    /\ \E ch \in [ClusterIds -> {<<>>, V12, V13}] :
          /\ clusters =
                {AtDate(ActiveCluster(id, "w1", ch[id], DsV2, DsV2), today - 1)
                    : id \in {x \in ClusterIds : ch[x] # <<>>}}
          /\ usage =
                {UsageRecord(id, "A", VmUsageQuantity(id), today - 1)
                    : id \in {x \in ClusterIds : ch[x] # <<>>}}
    /\ node_timeline =
          {Sample("c1", today - 1, FALSE, Some(40), Some(20), Some(25), Some(85), Some(0))}
    /\ list_prices = {PriceEntry("A", 3, today - 400, Null)}
    /\ LatestLtsWidget
    /\ OutputWidgets
    /\ NoResults

SpecFault == InitFault /\ [][Next]_vars

(* The cells of each notebook and the end of each notebook's run. *)
CellsOf(notebook) == {notebook[i] : i \in 1..Len(notebook)} \cap Cells

ClusterOptimizationEnded ==
    pc \notin {ClusterOptimizationCells[i] : i \in 1..Len(ClusterOptimizationCells)}
ResourceUtilizationEnded == pc = "done"

(* Every cell of the set whose own query does not raise has displayed its   *)
(* result.                                                                  *)
OthersProduced(cells) == \A cell \in cells \ failing : ~IsNull(result[cell])

(* C16: when the source of one section is missing, that section fails and   *)
(* every other section of the same notebook run still executes and          *)
(* produces its result, in both notebooks and for every kind of section.    *)
C16_FaultIsolationEverySection ==
    /\ ClusterOptimizationEnded =>
          /\ OthersProduced(CellsOf(ClusterOptimizationCells))
          /\ Len(summary_data) = Cardinality(ExecutiveQueries \ failing)
    /\ ResourceUtilizationEnded => OthersProduced(CellsOf(ResourceUtilizationCells))

(* The queries that run inside try/except. *)
GuardedQueries == TimelineReaders \cup ExecutiveQueries \cup {"workspace_ids"}

(* C16 holds of the guarded sections: when only queries inside try/except   *)
(* raise, every other section of the run produces its result.               *)
C16_GuardedSectionsIsolated ==
    failing \subseteq GuardedQueries => C16_FaultIsolationEverySection

(* Both runs have ended with one guarded query raising: its cell shows      *)
(* nothing and a later cell of the same notebook shows its result.          *)
C16_Witness ==
    /\ pc = "done"
    /\ failing = {"high_io_wait"}
    /\ IsNull(high_io_wait_result)
    /\ ~IsNull(high_memory_result)
    /\ ~IsNull(ru_photon_summary_result)

C19_ResultsSavedToOutputLocation ==
    (ClusterOptimizationEnded /\ failing = {}) =>
        \E t \in output_tables : t.location = output_location

(* C19, what the code does: no run writes anything to the output location   *)
(* or anywhere else.                                                        *)
C19_NothingIsWritten == output_tables = {}

(* A run of both notebooks has ended with every query succeeding. *)
C19_Witness ==
    /\ pc = "done"
    /\ failing = {}
    /\ \A cell \in Cells : ~IsNull(result[cell])
    /\ output_tables = {}

----------------------------------------------------------------------------
(* Specification of the summaries over varying runtimes, costs and cluster  *)
(* states.                                                                  *)

(* ML and GPU runtime version strings, and an ML image named in capitals. *)
VMl == <<"1", "4", ".", "3", ".", "x", "-", "c", "p", "u", "-", "m", "l">> \o Scala212
VGpu == <<"1", "4", ".", "3", ".", "x", "-", "g", "p", "u">> \o Scala212
VUpperMl == <<"1", "4", ".", "3", ".", "x", "-", "C", "P", "U", "-", "M", "L">> \o Scala212

(* The first cluster: active, a large driver, any runtime; its usage is     *)
(* absent, of a SKU without a price, or priced.                             *)
FirstClusterChoices ==
    {V13, V12, VMl, VGpu, VUpperMl} \X {"none", "unpriced", "low", "high"} \X {"active"}

(* Every further cluster: absent, active, changed exactly at the start of   *)
(* the window, or a cluster of workspace w2 that is deleted or was last     *)
(* changed the day before the window.                                       *)
OtherClusterChoices ==
    {<<>>}
    \cup ({V12, VMl, VGpu} \X {"none", "high"} \X {"active"})
    \cup ({V12} \X {"high"} \X {"edge", "deleted", "stale"})

PhotonChoices ==
    {ch \in [ClusterIds -> FirstClusterChoices \cup OtherClusterChoices] :
        /\ ch["c1"] \in FirstClusterChoices
        /\ \A id \in ClusterIds \ {"c1"} : ch[id] \in OtherClusterChoices}

(* The cluster record of a choice. *)
ChosenCluster(id, choice, day, W) ==
    LET node == IF id = "c1" THEN HB120rsV2 ELSE NC6sV3
        ws == IF choice[3] \in {"deleted", "stale"} THEN "w2" ELSE "w1"
        c == ActiveCluster(id, ws, choice[1], node, node)
    IN  CASE choice[3] = "active"  -> AtDate(c, day - 1)
          [] choice[3] = "edge"    -> AtDate(c, W)
          [] choice[3] = "deleted" -> [AtDate(c, day - 1) EXCEPT !.delete_time = Some(day - 1)]
          [] choice[3] = "stale"   -> AtDate(c, W - 1)

(* The usage records of a choice. *)
ChosenUsage(id, choice, day) ==
    CASE choice[2] = "none"     -> {}
      [] choice[2] = "unpriced" -> {UsageRecord(id, "B", 1000, day - 1)}
      [] choice[2] = "low"      -> {UsageRecord(id, "A", 1000, day - 1)}
      [] choice[2] = "high"     -> {UsageRecord(id, "A", 2000, day - 1)}

(* One worker sample per cluster: the first cluster uses memory, I/O and    *)
(* CPU heavily, the others CPU only.                                        *)
ChosenSample(id, day) ==
    IF id = "c1"
    THEN Sample(id, day - 1, FALSE, Some(40), Some(20), Some(25), Some(85), Some(0))
    ELSE Sample(id, day - 1, FALSE, Some(50), Some(10), Some(5), Some(40), Some(0))

InitPhoton ==
    /\ pc = "widgets"
    /\ today = ReportDate
    /\ DefaultWidgets
    /\ workspace_filter = "ALL"
    /\ node_types = NodeTypeCatalog
    /\ failing = {}
    /\ \E ch \in PhotonChoices :
          LET present == {id \in ClusterIds : ch[id] # <<>>}
          IN  /\ clusters =
                    {ChosenCluster(id, ch[id], today, today - lookback_days) : id \in present}
              /\ usage = UNION {ChosenUsage(id, ch[id], today) : id \in present}
              /\ node_timeline = {ChosenSample(id, today) : id \in present}
    /\ list_prices = {PriceEntry("A", 3, today - 400, Null)}
    /\ LatestLtsWidget
    /\ OutputWidgets
    /\ NoResults

SpecPhoton == InitPhoton /\ [][Next]_vars

----------------------------------------------------------------------------
(* Properties of the Photon candidate analyses *)

(* The version strings of the inputs that contain 'ml' or 'gpu' in any      *)
(* letter case, and those that contain 'photon'.                            *)
MlVersions == {VMl, VUpperMl}
GpuVersions == {VGpu}
PhotonVersions == {V13}

(* The active clusters that do not run Photon, and those among them on an   *)
(* ML or GPU runtime.                                                       *)
ActiveNonPhoton ==
    {c \in clusters : ActiveInWindow(c) /\ c.dbr_version \notin PhotonVersions}
MlGpuClusters ==
    {c \in ActiveNonPhoton : c.dbr_version \in MlVersions \cup GpuVersions}

(* The sum of cluster_count over the rows of a displayed summary. *)
CountedClusters(res) ==
    SumFn([i \in 1..Len(RowsOf(res)) |-> RowsOf(res)[i].cluster_count])

(* The cluster_count of the row of a runtime type, 0 without such a row. *)
RuntimeCount(res, type) ==
    SumFn([i \in {j \in 1..Len(RowsOf(res)) : RowsOf(res)[j].runtime_type = type}
              |-> RowsOf(res)[i].cluster_count])

(* ML and GPU clusters are in the cost-based list and counted under their   *)
(* runtime type by the candidate summary.                                   *)
MlGpuInCostBased(list, summary) ==
    /\ ~IsNull(list) =>
          /\ {c.cluster_id : c \in MlGpuClusters} \subseteq ListedIds(list)
          /\ \A i \in 1..Len(RowsOf(list)) :
                LET r == RowsOf(list)[i]
                IN  /\ r.dbr_version \in MlVersions <=> r.runtime_type = "ML Runtime"
                    /\ r.dbr_version \in GpuVersions <=> r.runtime_type = "GPU Runtime"
    /\ ~IsNull(summary) =>
          /\ RuntimeCount(summary, "ML Runtime") =
                Cardinality({c \in MlGpuClusters : c.dbr_version \in MlVersions})
          /\ RuntimeCount(summary, "GPU Runtime") =
                Cardinality({c \in MlGpuClusters : c.dbr_version \in GpuVersions})

(* Every non-Photon cluster of these inputs has worker samples with an      *)
(* average CPU use of 60 percent, so each belongs to the high-CPU list and  *)
(* to one band of the CPU utilization summary.                              *)
MlGpuInHighCpu(list) ==
    ~IsNull(list) => {c.cluster_id : c \in MlGpuClusters} \subseteq ListedIds(list)

AllInCpuSummary(summary) ==
    ~IsNull(summary) => CountedClusters(summary) = Cardinality(ActiveNonPhoton)

(* C20: ML and GPU runtimes are recognised by a case-insensitive substring  *)
(* match and are never left out of a Photon candidate analysis: every       *)
(* active non-Photon cluster whose version contains 'ml' or 'gpu' is in the *)
(* cost-based candidate list, is counted by the candidate summary, is in    *)
(* the high-CPU list and is counted by the CPU utilization summary, in both *)
(* notebooks.                                                               *)
C20_MlGpuNeverExcluded ==
    /\ MlGpuInCostBased(photon_candidates_result, photon_summary_result)
    /\ MlGpuInCostBased(ru_photon_candidates_result, ru_photon_summary_result)
    /\ MlGpuInHighCpu(high_cpu_photon_result)
    /\ MlGpuInHighCpu(ru_high_cpu_photon_result)
    /\ AllInCpuSummary(cpu_summary_result)
    /\ AllInCpuSummary(ru_cpu_summary_result)

(* C20 holds of every Photon candidate result except the CPU utilization    *)
(* summary of Cluster_Optimization_Analysis, which counts the non-Photon    *)
(* clusters that are not on an ML runtime.                                  *)
C20_MlGpuKeptExceptCpuSummary ==
    /\ MlGpuInCostBased(photon_candidates_result, photon_summary_result)
    /\ MlGpuInCostBased(ru_photon_candidates_result, ru_photon_summary_result)
    /\ MlGpuInHighCpu(high_cpu_photon_result)
    /\ MlGpuInHighCpu(ru_high_cpu_photon_result)
    /\ AllInCpuSummary(ru_cpu_summary_result)
    /\ ~IsNull(cpu_summary_result) =>
          CountedClusters(cpu_summary_result) =
              Cardinality({c \in ActiveNonPhoton : c.dbr_version \notin MlVersions})

(* Both notebooks have run over an ML runtime named in capitals and a GPU   *)
(* runtime: both are in the cost-based and high-CPU lists, and the CPU      *)
(* utilization summary of Cluster_Optimization_Analysis counts only the GPU *)
(* cluster.                                                                 *)
C20_Witness ==
    /\ pc = "done"
    /\ \E a, b \in MlGpuClusters :
          /\ a.dbr_version = VUpperMl
          /\ b.dbr_version = VGpu
          /\ {a.cluster_id, b.cluster_id} \subseteq
                ListedIds(photon_candidates_result) \cap ListedIds(high_cpu_photon_result)
    /\ CountedClusters(cpu_summary_result) = 1
    /\ CountedClusters(ru_cpu_summary_result) = 2

----------------------------------------------------------------------------
(* Properties of the percentage-of-total columns.  With the usage records   *)
(* of these inputs every cost is a whole number of cents, so the displayed  *)
(* total_cost_usd of a row is its exact cost.                               *)

(* A cluster has a usage record in the window with a valid, non-zero price. *)
HasPricedUsage(cid) ==
    \E u \in RecordsInWindow(cid) : \E lp \in ValidPrices(u) : u.usage_quantity * lp.price # 0

(* The displayed summaries that have a percentage-of-total-cost column,     *)
(* with the name of the column.                                             *)
PctSummaries ==
    { <<dbr_distribution_result, "pct_of_total_cost">>,
      <<vm_distribution_result, "pct_of_total_cost">>,
      <<driver_sizing_summary_result, "pct_of_total_cost">>,
      <<photon_adoption_result, "pct_of_total_cost">>,
      <<photon_summary_result, "pct_of_non_photon_cost">>,
      <<ru_photon_adoption_result, "pct_of_total_cost">>,
      <<resource_summary_result, "pct_of_total_cost">>,
      <<ru_photon_summary_result, "pct_of_non_photon_cost">> }

(* The sum of total_cost_usd over the rows of a result. *)
RowsCost(rows) == SumFn([i \in 1..Len(rows) |-> rows[i].total_cost_usd])

Distance(a, b) == IF a >= b THEN a - b ELSE b - a

(* pct (in hundredths of a percent) is part / total as a percentage rounded *)
(* to two decimals: it is within half a hundredth of the exact share.       *)
IsRoundedShare(pct, part, total) == 2 * Distance(pct * total, 10000 * part) <= total

C13_SharesOf(rows, column) ==
    RowsCost(rows) # 0 =>
        /\ \A i \in 1..Len(rows) :
              /\ ~IsNull(rows[i][column])
              /\ IsRoundedShare(Val(rows[i][column]), rows[i].total_cost_usd, RowsCost(rows))
        /\ 2 * Distance(SumFn([i \in 1..Len(rows) |-> Val(rows[i][column])]), 10000)
              <= Len(rows)

(* C13: in every summary with a percentage-of-total-cost column the         *)
(* denominator is the sum of the cost of all rows of that same result: when *)
(* it is not zero, each row's percentage is its own share of that sum       *)
(* rounded to 2 decimals, and the percentages of the result add up to 100   *)
(* within half a hundredth per row.                                         *)
C13_PercentagesOfSameResult ==
    \A s \in PctSummaries : ~IsNull(s[1]) => C13_SharesOf(RowsOf(s[1]), s[2])

(* Both notebooks have run; the DBR distribution, the driver sizing summary *)
(* and the resource summary each have two rows, whose shares of the cost    *)
(* are 33.33 and 66.67 percent.                                             *)
C13_Witness ==
    /\ pc = "done"
    /\ \A res \in {dbr_distribution_result, driver_sizing_summary_result,
                   resource_summary_result} :
          /\ Len(RowsOf(res)) = 2
          /\ \A i \in 1..2 : RowsOf(res)[i].total_cost_usd # 0
          /\ {RowsOf(res)[i].pct_of_total_cost : i \in 1..2} = {Some(3333), Some(6667)}

----------------------------------------------------------------------------
(* Properties of the active-cluster filter *)

ActiveIds == {c.cluster_id : c \in {x \in clusters : ActiveInWindow(x)}}

(* The displayed results with one row per cluster. *)
DetailResults ==
    { outdated_dbr_result, old_vm_result, oversized_driver_result,
      high_cpu_photon_result, photon_candidates_result, ru_high_cpu_photon_result,
      high_io_wait_result, high_memory_result, ru_photon_candidates_result }

(* The displayed results with one row per group and a cluster_count. *)
CountingResults ==
    { dbr_distribution_result, vm_distribution_result, driver_sizing_summary_result,
      photon_adoption_result, cpu_summary_result, photon_summary_result,
      ru_photon_adoption_result, ru_cpu_summary_result, resource_summary_result,
      ru_photon_summary_result }

(* The cost in cents of the usage of a cluster at the one price valid for   *)
(* it, and the cost of all active clusters.                                 *)
CostOf(cid) ==
    SumFn([u \in RecordsInWindow(cid) |->
              SumFn([lp \in ValidPrices(u) |-> u.usage_quantity * lp.price])]) \div 10

ActiveCost == SumFn([cid \in ActiveIds |-> CostOf(cid)])

(* No analysis result shows or counts a cluster that is deleted or was last *)
(* changed before the window, and the results over all clusters count and   *)
(* cost exactly the active ones.                                            *)
OnlyActiveInResults ==
    /\ \A res \in DetailResults : ListedIds(res) \subseteq ActiveIds
    /\ \A res \in CountingResults :
          /\ CountedClusters(res) <= Cardinality(ActiveIds)
          /\ RowsCost(RowsOf(res)) <= ActiveCost
    /\ \A res \in {dbr_distribution_result, photon_adoption_result,
                   ru_photon_adoption_result} :
          ~IsNull(res) =>
              /\ CountedClusters(res) = Cardinality(ActiveIds)
              /\ RowsCost(RowsOf(res)) = ActiveCost
    /\ \A i \in 1..Len(summary_data) :
          /\ summary_data[i].cluster_count <= Cardinality(ActiveIds)
          /\ Coalesce(summary_data[i].total_cost_usd, 0) <= ActiveCost

(* C18: in every query that reads the cluster table, a record contributes   *)
(* to the result only if its delete_time is NULL and its change_time is on  *)
(* or after current_date - lookback_days: this covers the analysis results  *)
(* and the query that fills the workspace dropdown.                         *)
C18_EveryClusterQueryActiveOnly ==
    /\ OnlyActiveInResults
    /\ workspace_options \subseteq
          {"ALL"} \cup {c.workspace_id : c \in {x \in clusters : ActiveInWindow(x)}}

(* C18 amended: every analysis query (every query whose result is displayed *)
(* or enters the executive summary) uses only the cluster records with      *)
(* delete_time NULL and change_time on or after current_date -              *)
(* lookback_days; the query that fills the workspace dropdown reads the     *)
(* workspace id of every cluster record, deleted and old ones included.     *)
C18_AnalysisQueriesActiveOnly ==
    /\ OnlyActiveInResults
    /\ pc \notin {"widgets"} =>
          workspace_options = {"ALL"} \cup {c.workspace_id : c \in clusters}

(* Both notebooks have run over an active cluster and a deleted cluster of  *)
(* another workspace that has usage and worker samples in the window: the   *)
(* deleted cluster is in no result and its workspace is in the dropdown.    *)
C18_Witness ==
    /\ pc = "done"
    /\ \E d \in clusters :
          /\ d.delete_time # Null
          /\ RecordsInWindow(d.cluster_id) # {}
          /\ SamplesOf(d.cluster_id) # {}
          /\ d.workspace_id \in workspace_options
          /\ \A res \in DetailResults : d.cluster_id \notin ListedIds(res)
    /\ Cardinality(ActiveIds) = 1
    /\ \A res \in CountingResults \ {cpu_summary_result} : CountedClusters(res) = 1
    /\ ListedIds(oversized_driver_result) = ActiveIds

(* The same with a cluster last changed the day before the window. *)
C18_StaleReached ==
    /\ pc = "done"
    /\ \E d \in clusters :
          /\ d.delete_time = Null
          /\ d.change_time = today - lookback_days - 1
          /\ \A res \in DetailResults : d.cluster_id \notin ListedIds(res)
    /\ Cardinality(ActiveIds) = 1

----------------------------------------------------------------------------
(* Specification of the utilization averages over worker and driver samples *)
(* of clusters that do not run Photon.                                      *)

InitCpu ==
    /\ pc = "widgets"
    /\ today = ReportDate
    /\ DefaultWidgets
    /\ workspace_filter = "ALL"
    /\ node_types = {NodeType(DsV2, 4, 14336)}
    /\ failing = {}
    /\ clusters = {AtDate(ActiveCluster(id, "w1", V12, DsV2, DsV2), today - 1)
                      : id \in ClusterIds}
    /\ node_timeline \in
          SubsetsUpTo(UNION {SampleCandidates(id, today) : id \in ClusterIds},
                      MaxSamples)
    /\ usage = {UsageRecord(id, "A", VmUsageQuantity(id), today - 1) : id \in ClusterIds}
    /\ list_prices = {PriceEntry("A", 3, today - 400, Null)}
    /\ LatestLtsWidget
    /\ OutputWidgets
    /\ NoResults

SpecCpu == InitCpu /\ [][Next]_vars

(* The samples of a cluster inside the window, driver samples included. *)
AllSamplesOf(id) ==
    {x \in node_timeline : x.cluster_id = id /\ x.start_time >= today - lookback_days}

(* The average of a metric over the samples S that report it, rounded to    *)
(* two decimals (in hundredths); NULL when no sample reports it.            *)
RoundedMean(S, metric) ==
    IF MetricCount(S, metric) = 0 THEN Null
    ELSE Some((200 * MetricSum(S, metric) + MetricCount(S, metric))
                 \div (2 * MetricCount(S, metric)))

(* Sum and count of cpu_user_percent + cpu_system_percent over the samples  *)
(* that report both.                                                        *)
CpuReported(S) == {x \in S : ~IsNull(x.cpu_user_percent) /\ ~IsNull(x.cpu_system_percent)}
CpuSum(S) ==
    MetricSum(CpuReported(S), "cpu_user_percent")
    + MetricSum(CpuReported(S), "cpu_system_percent")
CpuCount(S) == Cardinality(CpuReported(S))

RoundedCpuMean(S) ==
    IF CpuCount(S) = 0 THEN Null
    ELSE Some((200 * CpuSum(S) + CpuCount(S)) \div (2 * CpuCount(S)))

(* The band of the CPU utilization summary for the samples S. *)
CpuBandOf(S) ==
    IF CpuCount(S) > 0 /\ CpuSum(S) >= 70 * CpuCount(S) THEN "High CPU (>=70%)"
    ELSE IF CpuCount(S) > 0 /\ CpuSum(S) >= 50 * CpuCount(S) THEN "Medium-High CPU (50-70%)"
    ELSE IF CpuCount(S) > 0 /\ CpuSum(S) >= 30 * CpuCount(S) THEN "Medium CPU (30-50%)"
    ELSE "Low CPU (<30%)"

(* The cluster_count of a band in a CPU utilization summary, 0 without a    *)
(* row for the band.                                                        *)
BandCount(res, band) ==
    SumFn([i \in {j \in 1..Len(RowsOf(res)) : RowsOf(res)[j].cpu_utilization_band = band}
              |-> RowsOf(res)[i].cluster_count])

(* A high-CPU list shows, for each listed cluster, the average over the     *)
(* samples Samples(cluster), and lists exactly the clusters where that      *)
(* average is at least 30.                                                  *)
HighCpuOver(res, Samples(_)) ==
    ~IsNull(res) =>
        /\ \A i \in 1..Len(RowsOf(res)) :
              RowsOf(res)[i].avg_cpu_percent = RoundedCpuMean(Samples(RowsOf(res)[i].cluster_id))
        /\ ListedIds(res) =
              {c.cluster_id : c \in
                  {x \in ActiveNonPhoton :
                      /\ ~IsNull(RoundedCpuMean(Samples(x.cluster_id)))
                      /\ Val(RoundedCpuMean(Samples(x.cluster_id))) >= 3000}}

(* A CPU utilization summary counts each cluster with samples in the band   *)
(* of its average over Samples(cluster).                                    *)
CpuSummaryOver(res, Samples(_)) ==
    ~IsNull(res) =>
        \A k \in 1..4 :
            BandCount(res, CpuBands[k]) =
                Cardinality({c \in ActiveNonPhoton :
                                /\ c.dbr_version \notin MlVersions
                                /\ Samples(c.cluster_id) # {}
                                /\ CpuBandOf(Samples(c.cluster_id)) = CpuBands[k]})

(* The I/O wait, memory and resource summary results of                     *)
(* Resource_Utilization_Analysis use the worker samples only.               *)
ResourceResultsOverWorkers ==
    /\ \A i \in 1..Len(RowsOf(high_io_wait_result)) :
          LET r == RowsOf(high_io_wait_result)[i]
          IN  /\ r.avg_io_wait_percent = RoundedMean(SamplesOf(r.cluster_id), "cpu_wait_percent")
              /\ r.avg_cpu_percent = RoundedCpuMean(SamplesOf(r.cluster_id))
    /\ \A i \in 1..Len(RowsOf(high_memory_result)) :
          LET r == RowsOf(high_memory_result)[i]
          IN  /\ r.avg_memory_percent =
                    RoundedMean(SamplesOf(r.cluster_id), "memory_used_percent")
              /\ r.avg_swap_percent = RoundedMean(SamplesOf(r.cluster_id), "swap_used_percent")
    /\ ~IsNull(resource_summary_result) =>
          \A t \in BottleneckTypes :
              SummaryCount(t) =
                  Cardinality({c \in ClustersWithData : t \in CategoriesOf(SamplesOf(c.cluster_id))})

(* C21: every utilization average that classifies or ranks a cluster is     *)
(* computed over the samples of its worker nodes inside the window only, in *)
(* both notebooks: the high-CPU lists, the CPU utilization summaries, the   *)
(* I/O wait and memory lists and the resource summary.                      *)
C21_AveragesOverWorkerSamplesOnly ==
    /\ HighCpuOver(high_cpu_photon_result, SamplesOf)
    /\ HighCpuOver(ru_high_cpu_photon_result, SamplesOf)
    /\ CpuSummaryOver(cpu_summary_result, SamplesOf)
    /\ CpuSummaryOver(ru_cpu_summary_result, SamplesOf)
    /\ ResourceResultsOverWorkers

(* What holds: Resource_Utilization_Analysis averages over the worker       *)
(* samples of the window; the high-CPU list and the CPU utilization summary *)
(* of Cluster_Optimization_Analysis average over all samples of the window, *)
(* those of the driver node included.                                       *)
C21_WorkerOnlyInResourceUtilization ==
    /\ HighCpuOver(high_cpu_photon_result, AllSamplesOf)
    /\ HighCpuOver(ru_high_cpu_photon_result, SamplesOf)
    /\ CpuSummaryOver(cpu_summary_result, AllSamplesOf)
    /\ CpuSummaryOver(ru_cpu_summary_result, SamplesOf)
    /\ ResourceResultsOverWorkers

(* Both notebooks have run over a cluster with one idle worker sample (CPU  *)
(* 10) and one busy driver sample (CPU 80): Cluster_Optimization_Analysis   *)
(* lists it with an average of 45.00 and counts it in the medium band,      *)
(* Resource_Utilization_Analysis does not list it and counts it as low.     *)
C21_Witness ==
    /\ pc = "done"
    /\ \E c \in clusters :
          /\ Cardinality(SamplesOf(c.cluster_id)) = 1
          /\ Cardinality(AllSamplesOf(c.cluster_id)) = 2
          /\ RoundedCpuMean(SamplesOf(c.cluster_id)) = Some(1000)
          /\ \E i \in 1..Len(RowsOf(high_cpu_photon_result)) :
                /\ RowsOf(high_cpu_photon_result)[i].cluster_id = c.cluster_id
                /\ RowsOf(high_cpu_photon_result)[i].avg_cpu_percent = Some(4500)
          /\ c.cluster_id \notin ListedIds(ru_high_cpu_photon_result)
    /\ BandCount(cpu_summary_result, "Medium CPU (30-50%)") = 1
    /\ BandCount(ru_cpu_summary_result, "Low CPU (<30%)") = 1

----------------------------------------------------------------------------
(* Specification of the workspace filter: clusters of two workspaces, each  *)
(* on a large, old driver and with heavy worker samples, so that every      *)
(* cluster in scope belongs to every detail list.                           *)

WorkspaceIds == {"w1", "w2"}

(* Per cluster: absent (only the second and later ones), or its workspace,  *)
(* its runtime and whether it has usage.                                    *)
WorkspaceChoices ==
    {ch \in [ClusterIds -> {<<>>} \cup (WorkspaceIds \X {V12, VMl} \X {"none", "high"})] :
        /\ ch["c1"] # <<>>
        /\ ch["c1"][1] = "w1"}

InitWorkspace ==
    /\ pc = "widgets"
    /\ today = ReportDate
    /\ DefaultWidgets
    /\ workspace_filter \in {"ALL"} \cup WorkspaceIds
    /\ node_types = NodeTypeCatalog
    /\ failing = {}
    /\ \E ch \in WorkspaceChoices :
          LET present == {id \in ClusterIds : ch[id] # <<>>}
          IN  /\ clusters =
                    {AtDate(ActiveCluster(id, ch[id][1], ch[id][2], HB120rsV2, HB120rsV2),
                            today - 1) : id \in present}
              /\ usage = UNION {ChosenUsage(id, <<ch[id][2], ch[id][3]>>, today)
                                   : id \in present}
              /\ node_timeline =
                    {[ChosenSample("c1", today) EXCEPT !.cluster_id = id] : id \in present}
    /\ list_prices = {PriceEntry("A", 3, today - 400, Null)}
    /\ LatestLtsWidget
    /\ OutputWidgets
    /\ NoResults

SpecWorkspace == InitWorkspace /\ [][Next]_vars

(* The cluster ids in scope that are not on an ML runtime. *)
NonMlActiveIds ==
    {c.cluster_id : c \in {x \in clusters : ActiveInWindow(x) /\ x.dbr_version \notin MlVersions}}

(* C22: with the filter 'ALL' no cluster is left out because of its         *)
(* workspace, and with a workspace id as filter every detail row, count and *)
(* cost comes from clusters of that workspace.  Over these inputs every     *)
(* detail list shows exactly the clusters that pass the filter, every       *)
(* summary counts and costs exactly them (the CPU utilization summary of    *)
(* Cluster_Optimization_Analysis those not on an ML runtime), and so do the *)
(* critical-DBR, old-VM and oversized-driver rows of the executive summary. *)
C22_WorkspaceFilter ==
    /\ \A res \in DetailResults :
          ~IsNull(res) =>
              /\ ListedIds(res) = ActiveIds
              /\ \A i \in 1..Len(RowsOf(res)) :
                    workspace_filter \in {"ALL", RowsOf(res)[i].workspace_id}
    /\ \A res \in CountingResults \ {cpu_summary_result, ru_cpu_summary_result} :
          ~IsNull(res) =>
              /\ CountedClusters(res) = Cardinality(ActiveIds)
              /\ RowsCost(RowsOf(res)) = ActiveCost
    /\ ~IsNull(ru_cpu_summary_result) =>
          CountedClusters(ru_cpu_summary_result) = Cardinality(ActiveIds)
    /\ ~IsNull(cpu_summary_result) =>
          CountedClusters(cpu_summary_result) = Cardinality(NonMlActiveIds)
    /\ Len(summary_data) = 4 =>
          /\ \A i \in {1, 3, 4} :
                /\ summary_data[i].cluster_count = Cardinality(ActiveIds)
                /\ Coalesce(summary_data[i].total_cost_usd, 0) = ActiveCost
          /\ summary_data[2].cluster_count = 0
    /\ workspace_filter = "ALL" =>
          ActiveIds = {c.cluster_id : c \in clusters}

(* Both notebooks have run with the filter w1 over a cluster of w1 and a    *)
(* cluster of w2 that both have usage: every detail list shows the cluster  *)
(* of w1 alone and the executive summary counts one cluster.                *)
C22_Witness ==
    /\ pc = "done"
    /\ workspace_filter = "w1"
    /\ \E a, b \in clusters :
          /\ a.workspace_id = "w1" /\ b.workspace_id = "w2"
          /\ RecordsInWindow(a.cluster_id) # {} /\ RecordsInWindow(b.cluster_id) # {}
          /\ \A res \in DetailResults : ListedIds(res) = {a.cluster_id}
    /\ summary_data[4].cluster_count = 1
    /\ ActiveCost > 0

(* The same inputs with the filter 'ALL': both clusters are in every list. *)
C22_AllReached ==
    /\ pc = "done"
    /\ workspace_filter = "ALL"
    /\ \E a, b \in clusters :
          /\ a.workspace_id = "w1" /\ b.workspace_id = "w2"
          /\ \A res \in DetailResults : ListedIds(res) = {a.cluster_id, b.cluster_id}

----------------------------------------------------------------------------
(* Properties of the executive summary *)

(* The clusters of the cluster-level DBR result whose row satisfies P. *)
DbrIdsWhere(P(_)) ==
    {RowsOf(outdated_dbr_result)[i].cluster_id :
        i \in {j \in 1..Len(RowsOf(outdated_dbr_result)) : P(RowsOf(outdated_dbr_result)[j])}}

LabelledWarning(r) == r.support_status = "WARNING (<1 year)"
LabelledCritical(r) ==
    r.support_status \in {"CRITICAL (Non-LTS)", "EXPIRED", "CRITICAL (<6 months)"}
ScheduledWithin180To365(r) ==
    /\ r.version_type = "LTS"
    /\ Val(r.days_until_eos) >= 180
    /\ Val(r.days_until_eos) <= 365

(* The executive summary and the cluster-level DBR result are both there. *)
SummaryAndDbrShown == Len(summary_data) = 4 /\ ~IsNull(outdated_dbr_result)

(* C23: the row 'DBR Warning (<1 year to EOS)' of the executive summary     *)
(* counts exactly the clusters the cluster-level DBR query labels WARNING   *)
(* (a scheduled version with 180 <= days_until_eos < 365, so not one with   *)
(* exactly 365 days left), and the Critical and Warning rows count disjoint *)
(* sets of clusters.                                                        *)
C23_WarningRowCountsWarningClusters ==
    SummaryAndDbrShown =>
        /\ summary_data[2].cluster_count = Cardinality(DbrIdsWhere(LabelledWarning))
        /\ summary_data[1].cluster_count = Cardinality(DbrIdsWhere(LabelledCritical))
        /\ DbrIdsWhere(LabelledWarning) \cap DbrIdsWhere(LabelledCritical) = {}

(* What holds: the Warning row counts the clusters on a scheduled version   *)
(* with 180 <= days_until_eos <= 365, the day 365 included; the Critical    *)
(* row counts the clusters labelled CRITICAL or EXPIRED, and the two sets   *)
(* are disjoint.                                                            *)
C23_WarningRowCountsUpTo365 ==
    SummaryAndDbrShown =>
        /\ summary_data[2].cluster_count = Cardinality(DbrIdsWhere(ScheduledWithin180To365))
        /\ summary_data[1].cluster_count = Cardinality(DbrIdsWhere(LabelledCritical))
        /\ DbrIdsWhere(ScheduledWithin180To365) \cap DbrIdsWhere(LabelledCritical) = {}
        /\ summary_data[1].cluster_count + summary_data[2].cluster_count
              <= Len(RowsOf(outdated_dbr_result))

(* The report runs 365 days before the end of support of 13.3 over one      *)
(* cluster on 13.3: the cluster-level result labels it SUPPORTED and the    *)
(* Warning row of the executive summary counts it.                          *)
C23_Witness ==
    /\ SummaryAndDbrShown
    /\ Len(RowsOf(outdated_dbr_result)) = 1
    /\ RowsOf(outdated_dbr_result)[1].days_until_eos = Some(365)
    /\ RowsOf(outdated_dbr_result)[1].support_status = "SUPPORTED"
    /\ summary_data[2].category = "DBR Warning (<1 year to EOS)"
    /\ summary_data[2].cluster_count = 1

(* The four summary queries in the order of their try blocks, and the       *)
(* category each appends.                                                   *)
ExecutiveOrder == <<"critical_dbr", "warning_dbr", "summary_old_vm", "summary_oversized_driver">>

ExecutiveCategory(q) ==
    CASE q = "critical_dbr" -> "DBR Critical (Non-LTS or <6mo to EOS)"
      [] q = "warning_dbr" -> "DBR Warning (<1 year to EOS)"
      [] q = "summary_old_vm" -> "Older VM Generations (Below Threshold)"
      [] q = "summary_oversized_driver" -> "Oversized Driver Nodes"

QuerySucceeds(q) == q \notin failing

(* The executive summary cell has run in this run of the notebook: no       *)
(* earlier cell of the notebook has ended the run.                          *)
ExecutiveSummaryRan ==
    /\ CellIndex("executive_summary") < (IF pc = "done" THEN Len(RunOrder) + 1 ELSE CellIndex(pc))
    /\ \A cell \in Cells :
          CellIndex(cell) < CellIndex("executive_summary") => cell \notin failing

C24_AllFailReached ==
    /\ pc = "done"
    /\ failing = ExecutiveQueries
    /\ summary_df = Null
    /\ printed[Len(printed)] = UnableToGenerate
    /\ ~IsNull(photon_adoption_result)

----------------------------------------------------------------------------
(* Properties of the support-schedule reference view *)

(* The cells of Cluster_Optimization_Analysis that come after the cell      *)
(* which registers the view, and the end of the run.                        *)
AfterReferenceCell ==
    pc = "done" \/ CellIndex(pc) > CellIndex("dbr_reference")

(* A query that joins the view has produced a result. *)
DbrQueryAnswered ==
    \/ ~IsNull(outdated_dbr_result)
    \/ ~IsNull(dbr_distribution_result)
    \/ \E i \in 1..Len(summary_data) :
          summary_data[i].category \in {"DBR Critical (Non-LTS or <6mo to EOS)",
                                        "DBR Warning (<1 year to EOS)"}

(* The view is registered with the six schedule entries. *)
ViewHoldsSchedule ==
    /\ ~ViewMissing
    /\ SupportView = dbr_lts_support
    /\ Cardinality(SupportView) = 6
    /\ Cardinality({s.lts_version : s \in SupportView}) = 6

(* C25: in every run of Cluster_Optimization_Analysis the view              *)
(* dbr_lts_support is registered before the first query that joins it is    *)
(* issued, it holds exactly the six schedule entries, and no later step of  *)
(* the run changes its contents.                                            *)
C25_ReferenceViewStable ==
    /\ [](AfterReferenceCell => ViewHoldsSchedule)
    /\ [](DbrQueryAnswered => ViewHoldsSchedule)
    /\ [][~ViewMissing => dbr_lts_support_view' = dbr_lts_support_view]_vars

(* The run has ended: the view holds the six entries and the cluster-level  *)
(* query, the distribution query and the executive summary have read it.    *)
C25_Witness ==
    /\ pc = "done"
    /\ ViewHoldsSchedule
    /\ Len(RowsOf(outdated_dbr_result)) > 0
    /\ Len(RowsOf(dbr_distribution_result)) > 0
    /\ Len(summary_data) = 4
    /\ summary_data[1].cluster_count > 0

----------------------------------------------------------------------------
(* Properties of the cost attribution under overlapping price entries *)

(* The ways to pick one valid price (0 when there is none) for each record. *)
OnePriceEach(recs) ==
    {f \in [recs -> {0} \cup {lp.price : lp \in list_prices}] :
        \A u \in recs :
            IF ValidPrices(u) = {} THEN f[u] = 0
            ELSE f[u] \in {lp.price : lp \in ValidPrices(u)}}

(* C26: for any price catalog, also one with several entries of a SKU valid *)
(* at the same instant, a cluster's total_dbus is the sum of usage_quantity *)
(* over its records in the window, each counted once, and its cost counts   *)
(* each record against exactly one price.                                   *)
C26_EachRecordCountedOnce ==
    \A i \in 1..Len(RowsOf(outdated_dbr_result)) :
        LET r    == RowsOf(outdated_dbr_result)[i]
            recs == RecordsInWindow(r.cluster_id)
        IN  /\ r.total_dbus = Round2(SumFn([u \in recs |-> u.usage_quantity]))
            /\ \E f \in OnePriceEach(recs) :
                  r.total_cost_usd = Round2(SumFn([u \in recs |-> u.usage_quantity * f[u]]))

(* What holds: a record is counted once when at most one price entry is     *)
(* valid for it, and once per valid entry otherwise, in total_dbus and in   *)
(* the cost.                                                                *)
C26_CountedOncePerValidPrice ==
    \A i \in 1..Len(RowsOf(outdated_dbr_result)) :
        LET r      == RowsOf(outdated_dbr_result)[i]
            recs   == RecordsInWindow(r.cluster_id)
            single == {u \in recs : Cardinality(ValidPrices(u)) <= 1}
            multi  == recs \ single
        IN  /\ r.total_dbus =
                  Round2(SumFn([u \in single |-> u.usage_quantity])
                         + SumFn([u \in multi |->
                                    u.usage_quantity * Cardinality(ValidPrices(u))]))
            /\ r.total_cost_usd =
                  Round2(SumFn([u \in recs |->
                            u.usage_quantity * SumFn([lp \in ValidPrices(u) |-> lp.price])]))
            /\ multi = {} =>
                  /\ r.total_dbus = Round2(SumFn([u \in recs |-> u.usage_quantity]))
                  /\ \E f \in OnePriceEach(recs) :
                        r.total_cost_usd =
                            Round2(SumFn([u \in recs |-> u.usage_quantity * f[u]]))

(* A cluster whose only record in the window has two valid price entries is *)
(* reported with twice the record's DBUs and with the cost at both prices.  *)
C26_Witness ==
    /\ ~IsNull(outdated_dbr_result)
    /\ \E i \in 1..Len(RowsOf(outdated_dbr_result)) :
          LET r    == RowsOf(outdated_dbr_result)[i]
              recs == RecordsInWindow(r.cluster_id)
          IN  \E u \in recs :
                /\ recs = {u}
                /\ Cardinality(ValidPrices(u)) = 2
                /\ r.total_dbus = Round2(2 * u.usage_quantity)
                /\ r.total_dbus # Round2(u.usage_quantity)

----------------------------------------------------------------------------
(* Specification of the summaries over a cluster table that holds several   *)
(* active records of one cluster id (one record per configuration change).  *)

(* Further records: the same cluster at an earlier change on the same       *)
(* runtime, the same cluster at an earlier change on another runtime, and a *)
(* second cluster.                                                          *)
DupCandidates(day) ==
    { AtDate(ActiveCluster("c1", "w1", V13, DsV2, DsV2), day - 2),
      AtDate(ActiveCluster("c1", "w1", V12, DsV2, DsV2), day - 3),
      AtDate(ActiveCluster("c2", "w1", V13, DsV2, DsV2), day - 1) }

InitDup ==
    /\ pc = "widgets"
    /\ today = ReportDate
    /\ DefaultWidgets
    /\ workspace_filter = "ALL"
    /\ node_types = {NodeType(DsV2, 4, 14336)}
    /\ node_timeline = {}
    /\ failing = {}
    /\ \E more \in SUBSET DupCandidates(today) :
          clusters = {AtDate(ActiveCluster("c1", "w1", V13, DsV2, DsV2), today - 1)}
                        \cup more
    /\ usage \in SubsetsUpTo(UsageCandidates(today - lookback_days), MaxUsage)
    /\ list_prices = {PriceEntry("A", 3, today - 400, Null),
                      PriceEntry("B", 5, today - 400, Null)}
    /\ LatestLtsWidget
    /\ OutputWidgets
    /\ NoResults

SpecDup == InitDup /\ [][Next]_vars

(* The per-cluster totals of cluster_costs, 0 for a cluster without usage. *)
PerClusterDbus(id) ==
    IF IsNull(ClusterCostsRaw(id)) THEN 0 ELSE Val(ClusterCostsRaw(id)).total_dbus

PerClusterCost(id) ==
    IF IsNull(ClusterCostsRaw(id)) THEN 0 ELSE Val(ClusterCostsRaw(id)).total_cost_usd

IdsOf(G) == {g.c.cluster_id : g \in G}

RecordsOf(G, id) == Cardinality({g \in G : g.c.cluster_id = id})

(* The cluster rows that went into a row of the DBR distribution. *)
DistributionGroupOf(r) ==
    {cws \in ClusterWithSupport :
        /\ <<"D", "B", "R", " ">> \o DistributionGroupKey(cws)[1] = r.dbr_version
        /\ DistributionGroupKey(cws)[2] = r.end_of_support}

(* The cluster rows that went into a tuple of the executive summary. *)
SummaryGroupOf(t) ==
    IF t.category = "DBR Critical (Non-LTS or <6mo to EOS)" THEN CriticalDbrRows
    ELSE IF t.category = "DBR Warning (<1 year to EOS)" THEN WarningDbrRows
    ELSE IF t.category = "Older VM Generations (Below Threshold)" THEN OldVmSummaryRows
    ELSE OversizedJoined

DistinctTotalsIn(G, dbus, cost) ==
    /\ dbus = Round2(SumFn([id \in IdsOf(G) |-> PerClusterDbus(id)]))
    /\ cost = Round2(SumFn([id \in IdsOf(G) |-> PerClusterCost(id)]))

PerRecordTotalsIn(G, dbus, cost) ==
    /\ dbus = Round2(SumFn([id \in IdsOf(G) |-> RecordsOf(G, id) * PerClusterDbus(id)]))
    /\ cost = Round2(SumFn([id \in IdsOf(G) |-> RecordsOf(G, id) * PerClusterCost(id)]))

(* C27: in every summary row, total_dbus and total_cost_usd are the sums of *)
(* the per-cluster totals over the distinct clusters counted in the row's   *)
(* cluster_count, each cluster once, also when the cluster table holds more *)
(* than one active record of a cluster id.                                  *)
C27_EachClusterCostedOnce ==
    /\ \A i \in 1..Len(RowsOf(dbr_distribution_result)) :
          LET r == RowsOf(dbr_distribution_result)[i]
              G == DistributionGroupOf(r)
          IN  /\ r.cluster_count = Cardinality(IdsOf(G))
              /\ DistinctTotalsIn(G, r.total_dbus, r.total_cost_usd)
    /\ \A i \in 1..Len(summary_data) :
          LET t == summary_data[i]
              G == SummaryGroupOf(t)
          IN  /\ t.cluster_count = Cardinality(IdsOf(G))
              /\ G # {} => DistinctTotalsIn(G, Val(t.total_dbus), Val(t.total_cost_usd))

(* What holds: cluster_count counts distinct cluster ids, and the totals    *)
(* add a cluster's totals once per active record of the cluster in the row; *)
(* they are the sums over distinct clusters when every cluster of the row   *)
(* has one record.                                                          *)
C27_CostedOncePerActiveRecord ==
    /\ \A i \in 1..Len(RowsOf(dbr_distribution_result)) :
          LET r == RowsOf(dbr_distribution_result)[i]
              G == DistributionGroupOf(r)
          IN  /\ r.cluster_count = Cardinality(IdsOf(G))
              /\ PerRecordTotalsIn(G, r.total_dbus, r.total_cost_usd)
              /\ Cardinality(G) = Cardinality(IdsOf(G))
                    => DistinctTotalsIn(G, r.total_dbus, r.total_cost_usd)
    /\ \A i \in 1..Len(summary_data) :
          LET t == summary_data[i]
              G == SummaryGroupOf(t)
          IN  /\ t.cluster_count = Cardinality(IdsOf(G))
              /\ G # {} =>
                    /\ PerRecordTotalsIn(G, Val(t.total_dbus), Val(t.total_cost_usd))
                    /\ Cardinality(G) = Cardinality(IdsOf(G))
                          => DistinctTotalsIn(G, Val(t.total_dbus), Val(t.total_cost_usd))

(* A distribution row and a summary tuple that count one cluster and carry  *)
(* twice its DBUs, the cluster having two active records on one runtime.    *)
C27_Witness ==
    /\ pc = "done"
    /\ \E i \in 1..Len(RowsOf(dbr_distribution_result)) :
          LET r == RowsOf(dbr_distribution_result)[i]
          IN  /\ r.cluster_count = 1
              /\ Cardinality(DistributionGroupOf(r)) = 2
              /\ PerClusterDbus("c1") > 0
              /\ r.total_dbus = Round2(2 * PerClusterDbus("c1"))
              /\ r.total_dbus # Round2(PerClusterDbus("c1"))
    /\ \E i \in 1..Len(summary_data) :
          LET t == summary_data[i]
          IN  /\ t.cluster_count = 1
              /\ Cardinality(SummaryGroupOf(t)) = 2
              /\ Val(t.total_dbus) = Round2(2 * PerClusterDbus("c1"))
              /\ Val(t.total_dbus) # Round2(PerClusterDbus("c1"))

----------------------------------------------------------------------------
(* Properties relating the VM generation distribution to the cluster-level  *)
(* VM result                                                                *)

(* The clusters counted in a row of the VM generation distribution. *)
VmGroupOf(r) ==
    {cwi.c : cwi \in
        {x \in DistributionVmInfo :
            /\ x.vm_series = r.series
            /\ <<"v">> \o x.vm_gen_str = r.vm_generation
            /\ <<"v">> \o IntToString(x.min_threshold) = r.min_recommended}}

VmRowsWithStatus(status) ==
    {RowsOf(vm_distribution_result)[i] : i \in
        {j \in 1..Len(RowsOf(vm_distribution_result)) :
            RowsOf(vm_distribution_result)[j].status = status}}

CountedBelowThreshold == UNION {VmGroupOf(r) : r \in VmRowsWithStatus("Below Threshold")}
CountedMeetsThreshold == UNION {VmGroupOf(r) : r \in VmRowsWithStatus("Meets Threshold")}

VmResultsShown == ~IsNull(old_vm_result) /\ ~IsNull(vm_distribution_result)

(* C28: every cluster the cluster-level query reports as 'Below             *)
(* Recommended' is counted in a distribution row with status 'Below         *)
(* Threshold', and every cluster counted in a 'Meets Threshold' row is      *)
(* absent from the cluster-level result.                                    *)
C28_DistributionAgreesWithClusterLevel ==
    VmResultsShown =>
        /\ \A c \in ActiveClusters :
              c.cluster_id \in OldVmRowIds => c \in CountedBelowThreshold
        /\ \A c \in CountedMeetsThreshold : c.cluster_id \notin OldVmRowIds

(* What holds: the distribution classifies by the driver node type alone.   *)
(* A cluster is counted under 'Below Threshold' exactly when its driver is  *)
(* below its threshold, and such a cluster is in the cluster-level result;  *)
(* a cluster counted under 'Meets Threshold' is in the cluster-level result *)
(* exactly when its worker is below its threshold; a cluster whose driver   *)
(* name has no generation is counted in no row.                             *)
C28_DistributionClassifiesDriverOnly ==
    VmResultsShown =>
        /\ \A c \in ActiveClusters :
              /\ c \in CountedBelowThreshold <=> RoleBelowThreshold(c.driver_node_type)
              /\ c \in CountedBelowThreshold => c.cluster_id \in OldVmRowIds
              /\ c \in CountedMeetsThreshold =>
                    (c.cluster_id \in OldVmRowIds
                        <=> RoleBelowThreshold(c.worker_node_type))
              /\ RegexpExtractGen(c.driver_node_type) = <<>> =>
                    c \notin CountedBelowThreshold \cup CountedMeetsThreshold
        /\ CountedBelowThreshold \cup CountedMeetsThreshold \subseteq ActiveClusters

(* A cluster listed as 'Below Recommended' for its worker while the         *)
(* distribution counts it under 'Meets Threshold', and one listed while the *)
(* distribution counts it in no row.                                        *)
C28_Witness ==
    /\ VmResultsShown
    /\ \E c \in CountedMeetsThreshold :
          /\ c.cluster_id \in OldVmRowIds
          /\ \E i \in 1..Len(RowsOf(old_vm_result)) :
                /\ RowsOf(old_vm_result)[i].cluster_id = c.cluster_id
                /\ RowsOf(old_vm_result)[i].vm_status = "Below Recommended"
    /\ \E c \in ActiveClusters :
          /\ c.cluster_id \in OldVmRowIds
          /\ c \notin CountedBelowThreshold \cup CountedMeetsThreshold

----------------------------------------------------------------------------
(* Properties relating the printed reference table to the cluster-level DBR *)
(* query                                                                    *)

(* The status the cluster-level query gives a cluster whose version token   *)
(* is the entry's label: the join matches the entry, and days_until_eos is  *)
(* DATEDIFF(DATE(end_of_support), current_date()).                          *)
ClusterLevelStatusOf(entry) ==
    SupportStatus(Some(entry.lts_version),
                  Some(DateDiff(ParseDate(entry.end_of_support), today)))

ReferenceRowsOf(version) == {row \in reference_table : row.version = version}

(* C29: for each of the six schedule entries, on any date, the band printed *)
(* by the reference-table loop is the band the cluster-level DBR query      *)
(* assigns on the same date to a cluster whose version token is the entry's *)
(* label.                                                                   *)
C29_ReferenceBandsMatchClusterLevel ==
    AfterReferenceCell =>
        /\ Cardinality(reference_table) = 6
        /\ \A entry \in dbr_lts_support :
              \E row \in reference_table :
                  /\ ReferenceRowsOf(entry.lts_version) = {row}
                  /\ row.status \in Bands
                  /\ row.status = BandOfLabel(ClusterLevelStatusOf(entry))
        /\ \A i \in 1..Len(RowsOf(outdated_dbr_result)) :
              LET r == RowsOf(outdated_dbr_result)[i]
              IN  r.version_type = "LTS" =>
                      \A row \in ReferenceRowsOf(r.dbr_family) :
                          /\ row.status = BandOfLabel(r.support_status)
                          /\ Some(row.days_left) = r.days_until_eos

(* The table was printed on a day on which an entry is exactly 365 days     *)
(* from its end of support, and on one on which it is exactly 180 days from *)
(* it, with a cluster of that version listed in the same band.              *)
C29_Witness ==
    /\ ~IsNull(outdated_dbr_result)
    /\ \E row \in reference_table :
          /\ row.days_left \in {180, 365}
          /\ row.status = (IF row.days_left = 180 THEN "WARNING" ELSE "SUPPORTED")
          /\ \E i \in 1..Len(RowsOf(outdated_dbr_result)) :
                /\ RowsOf(outdated_dbr_result)[i].version_type = "LTS"
                /\ RowsOf(outdated_dbr_result)[i].dbr_family = row.version
                /\ BandOfLabel(RowsOf(outdated_dbr_result)[i].support_status) = row.status

----------------------------------------------------------------------------
(* Specification of two runs of Cluster_Optimization_Analysis in one        *)
(* session over the same tables and date: after the first run the user      *)
(* edits the latest_lts_version widget, or the output_catalog and           *)
(* output_schema widgets, and runs the notebook again.                      *)

LtsWidgetChoices == {<<"1", "7", ".", "3">>, <<"1", "3", ".", "3">>}
CatalogChoices == {"dbdemos_steventan", "main"}
SchemaChoices == {"waf", "audit"}

(* (runtime, driver, worker) of a cluster of the two runs. *)
RerunChoices ==
    { <<V13, DsV2, DsV2>>, <<V12, D16sV3, D8sV5>>, <<VMl, HB120rsV2, DsV2>> }

InitRerun ==
    /\ pc = "widgets"
    /\ today = ReportDate
    /\ DefaultWidgets
    /\ workspace_filter = "ALL"
    /\ node_types = NodeTypeCatalog
    /\ failing = {}
    /\ \E ch \in [ClusterIds -> {<<>>} \cup RerunChoices] :
          /\ clusters =
                {AtDate(ActiveCluster(id, "w1", ch[id][1], ch[id][2], ch[id][3]), today - 1)
                    : id \in {x \in ClusterIds : ch[x] # <<>>}}
          /\ usage =
                {UsageRecord(id, "A", VmUsageQuantity(id), today - 1)
                    : id \in {x \in ClusterIds : ch[x] # <<>>}}
    /\ node_timeline \in {{}, SampleCandidates("c1", today)}
    /\ list_prices = {PriceEntry("A", 3, today - 400, Null)}
    /\ latest_lts_version \in LtsWidgetChoices
    /\ OutputWidgets
    /\ NoResults

(* What a run of the notebook has shown. *)
RunOutputs ==
    [result                |-> result,
     summary_data          |-> summary_data,
     summary_df            |-> summary_df,
     reference_table       |-> reference_table,
     configuration_summary |-> configuration_summary]

(* The first run has ended; the user sets other values in the               *)
(* latest_lts_version widget or in the output widgets and runs all cells    *)
(* again.  The cell outputs are cleared; the temp view stays registered in  *)
(* the session.                                                             *)
RerunWithOtherSettings ==
    /\ pc = "ru_widgets"
    /\ IsNull(first_run)
    /\ \E v \in LtsWidgetChoices, cat \in CatalogChoices, sch \in SchemaChoices :
          /\ \/ v # latest_lts_version /\ cat = output_catalog /\ sch = output_schema
             \/ v = latest_lts_version /\ <<cat, sch>> # <<output_catalog, output_schema>>
          /\ latest_lts_version' = v
          /\ output_catalog' = cat
          /\ output_schema' = sch
    /\ first_run' = Some(RunOutputs)
    /\ result' = [cell \in Cells |-> NotRun]
    /\ summary_data' = <<>>
    /\ summary_df' = Null
    /\ reference_table' = {}
    /\ printed' = <<>>
    /\ configuration_summary' = <<>>
    /\ pc' = "widgets"
    /\ UNCHANGED <<today, lookback_days, workspace_filter, driver_cpu_threshold,
                   driver_memory_gb_threshold, vm_threshold, clusters, node_types,
                   usage, list_prices, node_timeline, failing, output_tables,
                   workspace_options, dbr_lts_support_view>>

NextRerun == Next \/ RerunWithOtherSettings

SpecRerun == InitRerun /\ [][NextRerun]_vars

(* The same table: the same number of rows and the same rows; ORDER BY      *)
(* leaves the order of rows that tie on the sort keys open in either run.   *)
SameTable(a, b) ==
    /\ IsNull(a) <=> IsNull(b)
    /\ Len(RowsOf(a)) = Len(RowsOf(b))
    /\ {RowsOf(a)[i] : i \in 1..Len(RowsOf(a))} = {RowsOf(b)[i] : i \in 1..Len(RowsOf(b))}

SecondRun == ~IsNull(first_run)

SettingsOf(run) ==
    <<run.configuration_summary[1].latest_lts_version,
      run.configuration_summary[1].output_location>>

(* C30: two runs of the cluster optimization notebook over the same source  *)
(* data and date that differ only in the latest_lts_version widget, or only *)
(* in the output catalog and schema, show identical result tables in every  *)
(* analysis section; the settings show only in the printed configuration    *)
(* summary.                                                                 *)
C30_ResultsIndependentOfLtsAndOutputWidgets ==
    SecondRun =>
        /\ \A cell \in CellsOf(ClusterOptimizationCells) :
              ~IsNull(result[cell]) => SameTable(result[cell], Val(first_run).result[cell])
        /\ reference_table # {} => reference_table = Val(first_run).reference_table
        /\ pc \notin {"widgets", "dbr_reference", "outdated_dbr", "dbr_distribution",
                      "old_vm", "vm_distribution", "oversized_driver",
                      "driver_sizing_summary", "executive_summary"}
              => /\ summary_data = Val(first_run).summary_data
                 /\ summary_df = Val(first_run).summary_df
        /\ ClusterOptimizationEnded =>
              /\ \A cell \in CellsOf(ClusterOptimizationCells) :
                    SameTable(result[cell], Val(first_run).result[cell])
              /\ SettingsOf(RunOutputs) # SettingsOf(Val(first_run))
              /\ SettingsOf(RunOutputs) = <<Some(latest_lts_version), output_location>>

(* The second run has ended with another latest_lts_version, naming the     *)
(* runtime of a listed cluster, than the first, and every section that      *)
(* lists clusters has rows.                                                 *)
C30_Witness ==
    /\ SecondRun
    /\ pc = "ru_widgets"
    /\ SettingsOf(RunOutputs)[1] # SettingsOf(Val(first_run))[1]
    /\ \E i \in 1..Len(RowsOf(outdated_dbr_result)) :
          RowsOf(outdated_dbr_result)[i].dbr_family = latest_lts_version
    /\ RowsOf(old_vm_result) # <<>>
    /\ RowsOf(oversized_driver_result) # <<>>
    /\ RowsOf(dbr_distribution_result) # <<>>
    /\ summary_data # <<>>

(* The second run has ended with another output location than the first. *)
C30_OutputChangedReached ==
    /\ SecondRun
    /\ pc = "ru_widgets"
    /\ SettingsOf(RunOutputs)[2] # SettingsOf(Val(first_run))[2]
    /\ RowsOf(outdated_dbr_result) # <<>>

====
